---------------------------- MODULE Spec2Model ----------------------------
(***************************************************************************)
(* A model of the grouping engine of the CSV processing dashboard          *)
(* (src/backend/grouping_logic.py) and of the group-management endpoint    *)
(* (src/backend/server.py).                                                *)
(*                                                                         *)
(* Strings are sequences of one-character strings, so that strip, split,   *)
(* title-casing, substring tests and f-string concatenation are computed   *)
(* as Python computes them.  A missing (NaN) cell is the value NaN.        *)
(***************************************************************************)
EXTENDS Integers, Sequences, FiniteSets, TLC

VARIABLES
    groups,        \* validator: the group tree handed to validate_and_count_groups
    total_rows,    \* validator: the total_rows argument
    report,        \* validator: the Validation Report of the last call
    prev,          \* validator: tree and report as they were after the call before
    calls,         \* validator: number of validate_and_count_groups calls so far
    df,            \* engine: the DataFrame, a sequence of rows (index 0 .. len-1)
    request,       \* engine: the entry point last called and its arguments
    result,        \* engine: what that call returned
    pc,            \* plan request: where the request stands
    oracle_calls,  \* plan request: oracle calls made for the current request
    response,      \* plan request: what the oracle call of the request did
    groups_data,   \* management: the groups_data of the stored document
    updates        \* management: update requests handled so far

vars == <<groups, total_rows, report, prev, calls, df, request, result,
          pc, oracle_calls, response, groups_data, updates>>

validatorVars == <<groups, total_rows, report, prev, calls>>

engineVars == <<df, request, result>>

oracleVars == <<pc, oracle_calls, response>>

manageVars == <<groups_data, updates>>

(***************************************************************************)
(* Python strings                                                          *)
(***************************************************************************)
LowerLetters ==
    <<"a","b","c","d","e","f","g","h","i","j","k","l","m",
      "n","o","p","q","r","s","t","u","v","w","x","y","z">>

UpperLetters ==
    <<"A","B","C","D","E","F","G","H","I","J","K","L","M",
      "N","O","P","Q","R","S","T","U","V","W","X","Y","Z">>

DigitChars == <<"0","1","2","3","4","5","6","7","8","9">>

IsLower(c) == \E i \in 1..Len(LowerLetters) : LowerLetters[i] = c

IsUpper(c) == \E i \in 1..Len(UpperLetters) : UpperLetters[i] = c

IsLetter(c) == IsLower(c) \/ IsUpper(c)

IsDigit(c) == \E n \in 1..Len(DigitChars) : DigitChars[n] = c

IsSpace(c) == c = " "

\* str.lower() on one character
ToLower(c) ==
    IF IsUpper(c)
    THEN LowerLetters[CHOOSE i \in 1..Len(UpperLetters) : UpperLetters[i] = c]
    ELSE c

\* str.upper() on one character
ToUpper(c) ==
    IF IsLower(c)
    THEN UpperLetters[CHOOSE i \in 1..Len(LowerLetters) : LowerLetters[i] = c]
    ELSE c

\* str.lower()
Lower(s) == [i \in 1..Len(s) |-> ToLower(s[i])]

\* str.title(): a letter that follows a letter is lowered, any other letter is raised
Title(s) ==
    [i \in 1..Len(s) |->
        IF IsLetter(s[i])
        THEN IF i > 1 /\ IsLetter(s[i-1]) THEN ToLower(s[i]) ELSE ToUpper(s[i])
        ELSE s[i]]

RECURSIVE LStrip(_)
LStrip(s) == IF s # <<>> /\ IsSpace(Head(s)) THEN LStrip(Tail(s)) ELSE s

RECURSIVE RStrip(_)
RStrip(s) ==
    IF s # <<>> /\ IsSpace(s[Len(s)]) THEN RStrip(SubSeq(s, 1, Len(s) - 1)) ELSE s

\* str.strip()
Strip(s) == RStrip(LStrip(s))

\* index of the first whitespace character of s, Len(s) + 1 when there is none
FirstSpace(s) ==
    IF \E i \in 1..Len(s) : IsSpace(s[i])
    THEN CHOOSE i \in 1..Len(s) : IsSpace(s[i]) /\ \A j \in 1..(i-1) : ~IsSpace(s[j])
    ELSE Len(s) + 1

\* str.split(): the words between runs of whitespace
RECURSIVE SplitWs(_)
SplitWs(s) ==
    LET t == LStrip(s)
    IN  IF t = <<>> THEN <<>>
        ELSE LET n == FirstSpace(t)
             IN  <<SubSeq(t, 1, n - 1)>> \o SplitWs(SubSeq(t, n, Len(t)))

\* ' '.join(words)
RECURSIVE JoinSp(_)
JoinSp(words) ==
    IF words = <<>> THEN <<>>
    ELSE IF Len(words) = 1 THEN words[1]
    ELSE words[1] \o <<" ">> \o JoinSp(Tail(words))

\* str(n) for a natural number n
RECURSIVE IntToStr(_)
IntToStr(n) ==
    IF n < 10 THEN <<DigitChars[n + 1]>>
    ELSE IntToStr(n \div 10) \o <<DigitChars[(n % 10) + 1]>>

\* a in b (substring test)
IsSubstr(a, b) ==
    \E i \in 0..(Len(b) - Len(a)) : SubSeq(b, i + 1, i + Len(a)) = a

\* a missing cell of the DataFrame (float NaN)
NaN == <<"NaN">>

\* pd.isna(v)
IsNa(v) == v = NaN

\* str(v) of a cell
Str(v) == IF IsNa(v) THEN <<"n","a","n">> ELSE v

(***************************************************************************)
(* Python dicts are records; a key may be absent                           *)
(***************************************************************************)
\* d[k] = v
SetField(d, k, v) == [x \in (DOMAIN d) \cup {k} |-> IF x = k THEN v ELSE d[x]]

\* d.get(k, default)
GetField(d, k, default) == IF k \in DOMAIN d THEN d[k] ELSE default

(***************************************************************************)
(* validate_and_count_groups                                               *)
(***************************************************************************)
\* item['count'] = item.get('quantity', 1); a missing quantity becomes 1
AnnotateItem(item) ==
    LET q == IF "quantity" \in DOMAIN item THEN item.quantity ELSE 1
    IN  [k \in (DOMAIN item) \cup {"count", "quantity"} |->
            IF k = "count" THEN q ELSE IF k = "quantity" THEN q ELSE item[k]]

AnnotateItems(items) == [i \in 1..Len(items) |-> AnnotateItem(items[i])]

\* f"{original_name} ({counter})"
Suffixed(original_name, counter) ==
    original_name \o <<" ", "(">> \o IntToStr(counter) \o <<")">>

\* a duplicate check that tries one suffix only (an if where the source loops)
MakeUniqueOnce(original_name, sub_group_names, counter) ==
    Suffixed(original_name, counter)

\* the while loop that makes a duplicate name unique
RECURSIVE MakeUnique(_, _, _)
MakeUnique(original_name, sub_group_names, counter) ==
    LET candidate == Suffixed(original_name, counter)
    IN  IF candidate \in sub_group_names
        THEN MakeUnique(original_name, sub_group_names, counter + 1)
        ELSE candidate

\* the name a sub-group leaves the duplicate check with
UniqueSubGroupName(sub_group_name, sub_group_names) ==
    IF sub_group_name \in sub_group_names
    THEN MakeUnique(sub_group_name, sub_group_names, 1)
    ELSE sub_group_name

\* the count the sub-group carried before the call
SubGroupCountCarried(sub_group) == sub_group.count

\* count of one sub-group: len(items), 0 without items
SubGroupCount(sub_group) == Len(sub_group.items)

DuplicateError(sub_group_name, group_name) ==
    [kind |-> "duplicate_sub_group_name", name |-> sub_group_name, group |-> group_name]

\* The loop over the sub-groups of one main group, from sub-group k on.
\* acc = [subs, names, errors, count]
RECURSIVE ValidateSubGroups(_, _, _)
ValidateSubGroups(group, k, acc) ==
    IF k > Len(group.sub_groups) THEN acc
    ELSE LET sg     == group.sub_groups[k]
             dup    == sg.name \in acc.names
             name   == UniqueSubGroupName(sg.name, acc.names)
             cnt    == SubGroupCount(sg)
             newsg  == SetField(SetField(
                           [sg EXCEPT !.name = name, !.items = AnnotateItems(sg.items)],
                           "count", cnt), "item_count", cnt)
         IN  ValidateSubGroups(group, k + 1,
                [subs   |-> Append(acc.subs, newsg),
                 names  |-> acc.names \cup {name},
                 errors |-> IF dup
                            THEN Append(acc.errors, DuplicateError(sg.name, group.name))
                            ELSE acc.errors,
                 count  |-> acc.count + cnt])

\* a validator that adds to the count a group already carries
ValidateGroupAccumulating(group) ==
    LET r == ValidateSubGroups(group, 1,
                [subs |-> <<>>, names |-> {}, errors |-> <<>>,
                 count |-> Len(GetField(group, "items", <<>>))])
    IN  [group  |-> SetField(SetField(
                        IF "items" \in DOMAIN group
                        THEN [group EXCEPT !.items = AnnotateItems(group.items),
                                           !.sub_groups = r.subs]
                        ELSE [group EXCEPT !.sub_groups = r.subs],
                        "count", group.count + r.count), "item_count", group.count + r.count),
         errors |-> r.errors]

\* one main group: [group, errors]
ValidateGroup(group) ==
    LET r == ValidateSubGroups(group, 1,
                [subs |-> <<>>, names |-> {}, errors |-> <<>>,
                 count |-> Len(GetField(group, "items", <<>>))])
    IN  [group  |-> SetField(SetField(
                        IF "items" \in DOMAIN group
                        THEN [group EXCEPT !.items = AnnotateItems(group.items),
                                           !.sub_groups = r.subs]
                        ELSE [group EXCEPT !.sub_groups = r.subs],
                        "count", r.count), "item_count", r.count),
         errors |-> r.errors]

RECURSIVE SumSeq(_)
SumSeq(s) == IF s = <<>> THEN 0 ELSE Head(s) + SumSeq(Tail(s))

RECURSIVE ConcatAll(_)
ConcatAll(ss) == IF ss = <<>> THEN <<>> ELSE Head(ss) \o ConcatAll(Tail(ss))

\* errors appended when grouped + ungrouped differs from total_rows
CountMismatchErrors(grouped_records, ungrouped_records, rows) ==
    IF grouped_records + ungrouped_records # rows
    THEN << [kind |-> "count_mismatch", name |-> <<>>, group |-> <<>>] >>
    ELSE <<>>

\* validate_and_count_groups(groups, total_rows): the tree as it leaves the
\* call (counts written, duplicates renamed) and the Validation Report
ValidateAndCountGroups(gs, rows) ==
    LET vg       == [i \in 1..Len(gs) |-> ValidateGroup(gs[i])]
        newgs    == [i \in 1..Len(gs) |-> vg[i].group]
        duperrs  == ConcatAll([i \in 1..Len(gs) |-> vg[i].errors])
        grouped  == SumSeq([i \in 1..Len(gs) |-> newgs[i].count])
        ungr     == rows - grouped
        mismatch == CountMismatchErrors(grouped, ungr, rows)
        errs     == duperrs \o mismatch
    IN  [groups |-> newgs,
         report |->
            [is_valid |-> errs = <<>>,
             errors   |-> errs,
             warnings |-> <<>>,
             counts   |->
                [total_rows          |-> rows,
                 grouped_records     |-> grouped,
                 ungrouped_records   |-> ungr,
                 main_groups         |-> Len(gs),
                 total_sub_groups    |-> SumSeq([i \in 1..Len(gs) |-> Len(gs[i].sub_groups)]),
                 ungrouped_subgroups |->
                    SumSeq([i \in 1..Len(gs) |->
                        Cardinality({k \in 1..Len(gs[i].sub_groups) :
                            GetField(gs[i].sub_groups[k], "is_ungrouped_subgroup", FALSE)})])]]]


(***************************************************************************)
(* Group trees handed to the validator                                     *)
(***************************************************************************)
MaxSubs == 3      \* sub-groups in a tree
MaxGroups == 2    \* main groups in a tree
MaxCalls == 2     \* validate_and_count_groups calls on one tree

\* sub-group names of the trees: 'p' and 'p (1)'
NamePool == { <<"p">>, <<"p", " ", "(", "1", ")">> }

\* items a sub-group of a tree holds
ItemCounts == {0, 1}

\* the count a producer wrote on a group before validation: 7 stands for
\* a stale value, -1 for "equal to len(items)"
UpstreamCounts == {-1, 7}

\* no entry point was called yet
NoRequest == [op |-> "none"]

\* no oracle call was made yet
NoResponse == [kind |-> "none"]

\* no plan request is under way
OracleIdle ==
    /\ pc = "idle"
    /\ oracle_calls = 0
    /\ response = NoResponse

NoResult == [kind |-> "none"]

\* find_one found no document for the file
NoDocument == [kind |-> "none"]

\* no update request has been handled
ManageIdle == groups_data = NoDocument /\ updates = 0

NoReport ==
    [is_valid |-> TRUE, errors |-> <<>>, warnings |-> <<>>,
     counts |-> [total_rows |-> 0, grouped_records |-> 0, ungrouped_records |-> 0,
                 main_groups |-> 0, total_sub_groups |-> 0, ungrouped_subgroups |-> 0]]

NoPrev == [groups |-> <<>>, report |-> NoReport]

\* item number i; every other item carries no quantity
TreeItem(i) ==
    IF i % 2 = 0
    THEN [id |-> IntToStr(i), quantity |-> 2]
    ELSE [id |-> IntToStr(i)]

\* the shapes of one tree: n sub-groups, each with a name and an item
\* count, dealt in order to g main groups
TreeShapes ==
    UNION { UNION { { [names |-> nm, sizes |-> sz, owner |-> ow] :
                        nm \in [1..n -> NamePool],
                        sz \in [1..n -> ItemCounts],
                        ow \in { f \in [1..n -> 1..g] :
                                    \A i \in 1..n, j \in 1..n : i <= j => f[i] <= f[j] } }
                    : n \in 0..MaxSubs }
            : g \in 1..MaxGroups }

GroupsOf(shape) ==
    IF Len(shape.names) = 0 THEN 1
    ELSE shape.owner[Len(shape.names)]

\* the ids of the items of sub-group k: numbered after those of the sub-groups before
RECURSIVE ItemsBefore(_, _)
ItemsBefore(shape, k) ==
    IF k <= 1 THEN 0 ELSE ItemsBefore(shape, k - 1) + shape.sizes[k - 1]

BuildTree(shape, direct, upstream) ==
    LET n == Len(shape.names)
        subOf(k) ==
            LET base == ItemsBefore(shape, k)
                its  == [i \in 1..shape.sizes[k] |-> TreeItem(base + i)]
                c    == IF upstream = -1 THEN Len(its) ELSE upstream
            IN  [name |-> shape.names[k], items |-> its, count |-> c,
                 item_count |-> c, is_ungrouped_subgroup |-> FALSE]
        idx(g) == { k \in 1..n : shape.owner[k] = g }
        first(g) == IF idx(g) = {} THEN 1 ELSE CHOOSE k \in idx(g) : \A m \in idx(g) : k <= m
        dits(g) == IF g = 1 /\ direct THEN << [id |-> <<"d">>] >> ELSE <<>>
    IN  [g \in 1..GroupsOf(shape) |->
            LET c == IF upstream = -1
                     THEN Len(dits(g)) + SumSeq([k \in 1..n |->
                              IF shape.owner[k] = g THEN shape.sizes[k] ELSE 0])
                     ELSE upstream
            IN  [name       |-> <<"g">> \o IntToStr(g),
                 items      |-> dits(g),
                 sub_groups |-> [j \in 1..Cardinality(idx(g)) |-> subOf(first(g) + j - 1)],
                 count      |-> c,
                 item_count |-> c]]

\* items held anywhere in a tree
ItemsInTree(gs) ==
    SumSeq([i \in 1..Len(gs) |->
        Len(GetField(gs[i], "items", <<>>)) +
        SumSeq([k \in 1..Len(gs[i].sub_groups) |-> Len(gs[i].sub_groups[k].items)])])

InitValidate ==
    /\ \E shape \in TreeShapes, direct \in BOOLEAN, upstream \in UpstreamCounts :
          groups = BuildTree(shape, direct, upstream)
    /\ \E d \in {-1, 0, 1} :
          /\ ItemsInTree(groups) + d >= 0
          /\ total_rows = ItemsInTree(groups) + d
    /\ report = NoReport
    /\ prev = NoPrev
    /\ calls = 0
    /\ df = <<>>
    /\ request = NoRequest
    /\ result = NoResult
    /\ OracleIdle
    /\ ManageIdle

\* one call validate_and_count_groups(groups, total_rows); the tree is
\* annotated in place
Validate ==
    /\ calls < MaxCalls
    /\ LET r == ValidateAndCountGroups(groups, total_rows)
       IN  /\ groups' = r.groups
           /\ report' = r.report
    /\ prev' = [groups |-> groups, report |-> report]
    /\ calls' = calls + 1
    /\ UNCHANGED total_rows
    /\ UNCHANGED <<engineVars, oracleVars, manageVars>>

NextValidate == Validate

SpecValidate == InitValidate /\ [][NextValidate]_vars


(***************************************************************************)
(* Claims about the validator                                              *)
(***************************************************************************)
\* the name sub-group k of main group g had before the first call
OrigName(g, k) == prev.groups[g].sub_groups[k].name

\* the name it has now
FinalName(g, k) == groups[g].sub_groups[k].name

\* the report holds an error naming the duplicate name nm of main group g
NamesDuplicate(nm, g) ==
    \E e \in 1..Len(report.errors) :
        report.errors[e] = DuplicateError(nm, groups[g].name)

\* sub-group names of every main group are pairwise distinct
NamesDistinct ==
    \A g \in 1..Len(groups) :
        \A i, j \in 1..Len(groups[g].sub_groups) : i < j => FinalName(g, i) # FinalName(g, j)

\* a renamed sub-group makes the report invalid, with an error naming it
RenameReported ==
    \A g \in 1..Len(groups) :
        \A k \in 1..Len(groups[g].sub_groups) :
            FinalName(g, k) # OrigName(g, k) =>
                (~report.is_valid /\ NamesDuplicate(OrigName(g, k), g))

C7_MismatchReported ==
    (calls >= 1 /\ ItemsInTree(groups) > total_rows) =>
        (~report.is_valid /\ report.errors # <<>>)

\* the count and item_count fields of a tree
CountFields(gs) ==
    [g \in 1..Len(gs) |->
        [count |-> gs[g].count, item_count |-> gs[g].item_count,
         subs  |-> [k \in 1..Len(gs[g].sub_groups) |->
                      <<gs[g].sub_groups[k].count, gs[g].sub_groups[k].item_count>>]]]

\* C8: a second validate_and_count_groups call on the same tree with the
\* same total_rows reports the same counts as the first and leaves the
\* count and item_count fields the first call wrote as they are.
C8_ValidationIdempotent ==
    calls >= 2 =>
        /\ report.counts = prev.report.counts
        /\ CountFields(groups) = CountFields(prev.groups)

\* the second call ran on a tree whose duplicates the first call renamed
C8_Witness ==
    /\ calls = 2
    /\ ~prev.report.is_valid
    /\ report.counts.grouped_records > 0
    /\ report.counts.total_sub_groups >= 2

(***************************************************************************)
(* The DataFrame                                                           *)
(*                                                                         *)
(* df is the sequence of rows; the row at position i + 1 has index i (the  *)
(* default RangeIndex of a DataFrame read from a CSV file).  Every row has *)
(* the columns "main" and "sub", in this order.                            *)
(***************************************************************************)
Columns == {"main", "sub"}

\* the Python value None as a column argument
None == "None"

\* a column argument that is neither None nor the empty string
Truthy(column) == column # None /\ column # ""

\* the indices of d, in order
AllIndex(d) == [k \in 1..Len(d) |-> k - 1]

\* df.loc[i]
RowAt(d, i) == d[i + 1]

\* pd.isna(value) or str(value).strip() == ''
IsBlankValueNullOnly(v) == IsNa(v)

IsBlankValue(v) == IsNa(v) \/ Strip(Str(v)) = <<>>

\* an int used as original_index; it never equals a str
IntIndex(i) == <<"int">> \o IntToStr(i)

\* code point of a printable ASCII character (the quote, the backslash and
\* the backtick, which no modelled string holds, are spelled out)
Printable ==
    <<" ","!","quote","#","$","%","&","'","(",")","*","+",",","-",".","/",
      "0","1","2","3","4","5","6","7","8","9",":",";","<","=",">","?",
      "@","A","B","C","D","E","F","G","H","I","J","K","L","M","N","O",
      "P","Q","R","S","T","U","V","W","X","Y","Z","[","backslash","]","^","_",
      "backtick","a","b","c","d","e","f","g","h","i","j","k","l","m","n","o",
      "p","q","r","s","t","u","v","w","x","y","z","{","|","}","~">>

Ord(c) == 31 + (CHOOSE i \in 1..Len(Printable) : Printable[i] = c)

\* a < b for Python strings
RECURSIVE StrLess(_, _)
StrLess(a, b) ==
    IF b = <<>> THEN FALSE
    ELSE IF a = <<>> THEN TRUE
    ELSE IF Head(a) # Head(b) THEN Ord(Head(a)) < Ord(Head(b))
    ELSE StrLess(Tail(a), Tail(b))

\* sorted(S) for a set of strings
RECURSIVE SortedKeys(_)
SortedKeys(S) ==
    IF S = {} THEN <<>>
    ELSE LET m == CHOOSE x \in S : \A y \in S : ~StrLess(y, x)
         IN  <<m>> \o SortedKeys(S \ {m})

\* the keys of d.loc[idx].groupby(column): NaN keys are dropped, keys are sorted
GroupKeys(d, idx, column) ==
    SortedKeys({RowAt(d, idx[k])[column] : k \in 1..Len(idx)} \ {NaN})

\* the indices of the rows of idx whose cell in column equals value
RowsWith(d, idx, column, value) ==
    SelectSeq(idx, LAMBDA i : RowAt(d, i)[column] = value)

\* clean_group_name
clean_group_name(name) ==
    IF name = <<>> THEN <<"U","n","g","r","o","u","p","e","d">>
    ELSE LET clean_name == Title(JoinSp(SplitWs(Strip(name))))
         IN  IF clean_name # <<>> THEN clean_name ELSE <<"U","n","g","r","o","u","p","e","d">>

\* generate_group_id: eight characters of a fresh uuid4, here the position of
\* the group in the result
generate_group_id(g, k) == <<"g">> \o IntToStr(g) \o <<"s">> \o IntToStr(k)

\* f"{savings_percent:.0f}": a float that is a multiple of one half, given as
\* twice its value, rounded half to even
RoundHalfEven(twice) ==
    IF twice % 2 = 0 THEN twice \div 2
    ELSE IF (twice \div 2) % 2 = 0 THEN twice \div 2 ELSE (twice \div 2) + 1

\* the largest of a non-empty set of numbers
MaxOf(S) == CHOOSE x \in S : \A y \in S : y <= x

\* the smallest of a non-empty set of numbers
MinOf(S) == CHOOSE x \in S : \A y \in S : x <= y

Min(a, b) == IF a < b THEN a ELSE b

Max(a, b) == IF a > b THEN a ELSE b

\* calculate_estimated_savings
calculate_estimated_savings(items) ==
    LET item_count == Len(items)
        savings_percent ==
            IF item_count >= 10 THEN RoundHalfEven(Min(50, 20 + (item_count - 10)))
            ELSE IF item_count >= 5 THEN Min(15, 5 + (item_count - 5))
            ELSE Max(5, item_count * 2)
    IN  IntToStr(savings_percent) \o <<"%">>

\* {str(k): str(v) for k, v in row.to_dict().items()}
RowDataStr(row) == [c \in Columns |-> Str(row[c])]

(***************************************************************************)
(* safe_float and safe_int                                                 *)
(*                                                                         *)
(* A cell is NaN or the text str(value) gives.  A float is written as the  *)
(* fraction <<numerator, denominator>>, the denominator a power of ten.    *)
(* The cells of the model hold no exponent, underscore, inf or nan         *)
(* spelling of a number.                                                   *)
(***************************************************************************)
\* the value of a digit character
DigitValue(c) == (CHOOSE n \in 1..Len(DigitChars) : DigitChars[n] = c) - 1

\* the number written by a string of digits
RECURSIVE ParseDigits(_)
ParseDigits(s) ==
    IF s = <<>> THEN 0
    ELSE 10 * ParseDigits(SubSeq(s, 1, Len(s) - 1)) + DigitValue(s[Len(s)])

\* str.replace(',', '').replace('$', '').strip()
CleanNumber(s) == Strip(SelectSeq(s, LAMBDA c : c # "," /\ c # "$"))

\* str.replace(',', '').strip()
CleanInteger(s) == Strip(SelectSeq(s, LAMBDA c : c # ","))

\* the text after a leading sign
Unsigned(s) == IF s # <<>> /\ s[1] \in {"+", "-"} THEN Tail(s) ELSE s

\* digits with at most one decimal point and at least one digit
IsUnsignedDecimal(s) ==
    /\ \A n \in 1..Len(s) : IsDigit(s[n]) \/ s[n] = "."
    /\ \E n \in 1..Len(s) : IsDigit(s[n])
    /\ \A m, n \in 1..Len(s) : s[m] = "." /\ s[n] = "." => m = n

\* does float(s) accept the text
IsFloatText(s) == IsUnsignedDecimal(Unsigned(s))

\* the digits after the decimal point
FractionDigits(s) ==
    IF \E n \in 1..Len(s) : s[n] = "."
    THEN Len(s) - (CHOOSE n \in 1..Len(s) : s[n] = ".")
    ELSE 0

RECURSIVE PowerOfTen(_)
PowerOfTen(k) == IF k = 0 THEN 1 ELSE 10 * PowerOfTen(k - 1)

\* float(s) of a text float accepts
FloatOf(s) ==
    << (IF s[1] = "-" THEN -1 ELSE 1) * ParseDigits(SelectSeq(Unsigned(s), IsDigit)),
       PowerOfTen(FractionDigits(Unsigned(s))) >>

\* int(x) of a float: the fraction is cut off towards zero
IntOf(x) == IF x[1] >= 0 THEN x[1] \div x[2] ELSE -((-x[1]) \div x[2])

\* safe_float: default 0.0 for a missing cell and for a text float rejects
safe_float(value) ==
    IF IsNa(value) \/ value = <<>> THEN <<0, 1>>
    ELSE IF IsFloatText(CleanNumber(value)) THEN FloatOf(CleanNumber(value))
    ELSE <<0, 1>>

\* safe_int: default 1 for a missing cell and for a text float rejects
safe_int(value) ==
    IF IsNa(value) \/ value = <<>> THEN 1
    ELSE IF IsFloatText(CleanInteger(value)) THEN IntOf(FloatOf(CleanInteger(value)))
    ELSE 1

\* row_data of create_item_from_row over all the columns of the row: a NaN cell
\* becomes None
RowDataNative(row) == [c \in DOMAIN row |-> IF IsNa(row[c]) THEN <<None>> ELSE row[c]]

\* an item built from the row with index i inside create_groups_from_columns or
\* create_groups_from_single_column; source_row records which row of df the
\* item was built from
ColumnItem(d, i, name, main_value) ==
    [id |-> IntToStr(i),
     name |-> name,
     price |-> 0,
     category |-> Str(main_value),
     quantity |-> 1,
     count |-> 1,
     row_data |-> RowDataStr(RowAt(d, i)),
     original_index |-> IntIndex(i),
     source_row |-> i]

\* an item of the 'Ungrouped Items' sub-group: it is built from a record of
\* to_dict('records'), which has no 'index' key, so id and original_index are
\* f"ungrouped_{k}"
UngroupedSubGroupItem(d, i, k, sub_column, main_value) ==
    [id |-> <<"u","n","g","r","o","u","p","e","d","_">> \o IntToStr(k),
     name |-> Str(RowAt(d, i)[sub_column]),
     price |-> 0,
     category |-> Str(main_value),
     quantity |-> 1,
     count |-> 1,
     row_data |-> RowDataStr(RowAt(d, i)),
     original_index |-> <<"u","n","g","r","o","u","p","e","d","_">> \o IntToStr(k),
     source_row |-> i]

\* create_item_from_row
create_item_from_row(d, i, main_value, sub_value) ==
    [id |-> IntToStr(i),
     name |-> IF sub_value # <<>> THEN sub_value ELSE main_value,
     price |-> safe_float(GetField(RowAt(d, i), "price", GetField(RowAt(d, i), "Price", <<"0">>))),
     category |-> main_value,
     quantity |-> safe_int(GetField(RowAt(d, i), "quantity", GetField(RowAt(d, i), "Quantity", <<"1">>))),
     count |-> 1,
     row_data |-> RowDataNative(RowAt(d, i)),
     original_index |-> IntIndex(i),
     source_row |-> i]


(***************************************************************************)
(* Column-driven grouping                                                  *)
(***************************************************************************)
\* concatenation of a sequence of sequences
RECURSIVE Flatten(_)
Flatten(ss) == IF ss = <<>> THEN <<>> ELSE Head(ss) \o Flatten(Tail(ss))

\* the items of all sub-groups of a main group
SubGroupItems(group) ==
    Flatten([k \in 1..Len(group.sub_groups) |-> group.sub_groups[k].items])

\* the keys of a groupby that are not skipped as null/empty
NonBlankKeys(d, idx, column) ==
    SelectSeq(GroupKeys(d, idx, column), LAMBDA v : ~IsBlankValue(v))

\* the keys of a groupby that are blank strings
BlankKeys(d, idx, column) ==
    SelectSeq(GroupKeys(d, idx, column), LAMBDA v : IsBlankValue(v))

\* a sub-group as create_groups_from_columns builds it
ColumnSubGroup(id, name, items, is_ungrouped_subgroup) ==
    [id |-> id,
     name |-> name,
     items |-> items,
     count |-> Len(items),
     is_ungrouped_subgroup |-> is_ungrouped_subgroup]

\* the named sub-group of one key of the sub-column (lines 1076-1102)
NamedSubGroup(d, sub_group_df, sub_column, main_value, sub_value, g, k) ==
    ColumnSubGroup(generate_group_id(g, k),
                   clean_group_name(Str(sub_value)),
                   [n \in 1..Len(sub_group_df) |->
                       ColumnItem(d, sub_group_df[n],
                                  Str(RowAt(d, sub_group_df[n])[sub_column]), main_value)],
                   FALSE)

\* the named sub-groups of one main group, one per non-blank key, in key order
NamedSubGroupsOf(d, main_group_df, sub_column, main_value, g, keys) ==
    [k \in 1..Len(keys) |->
        NamedSubGroup(d, RowsWith(d, main_group_df, sub_column, keys[k]),
                      sub_column, main_value, keys[k], g, k)]

NamedSubGroups(d, main_group_df, sub_column, main_value, g) ==
    NamedSubGroupsOf(d, main_group_df, sub_column, main_value, g,
                     NonBlankKeys(d, main_group_df, sub_column))

\* the rows of one main group whose sub-column key is a blank string, key by
\* key (lines 1072-1074); rows with a NaN key are in no group of the groupby
BlankSubRowsOf(d, main_group_df, sub_column, keys) ==
    Flatten([k \in 1..Len(keys) |-> RowsWith(d, main_group_df, sub_column, keys[k])])

BlankSubRows(d, main_group_df, sub_column) ==
    BlankSubRowsOf(d, main_group_df, sub_column, BlankKeys(d, main_group_df, sub_column))

\* the 'Ungrouped Items' sub-group (lines 1106-1128), none when ungrouped_items
\* is empty
UngroupedSubGroup(d, ungrouped_items, sub_column, main_value, g, k) ==
    IF ungrouped_items = <<>> THEN <<>>
    ELSE << ColumnSubGroup(generate_group_id(g, k),
                           <<"U","n","g","r","o","u","p","e","d"," ","I","t","e","m","s">>,
                           [n \in 1..Len(ungrouped_items) |->
                               UngroupedSubGroupItem(d, ungrouped_items[n], n - 1,
                                                     sub_column, main_value)],
                           TRUE) >>

\* the named sub-groups followed by the 'Ungrouped Items' sub-group
WithUngroupedSubGroup(named, d, main_group_df, sub_column, main_value, g) ==
    named \o UngroupedSubGroup(d, BlankSubRows(d, main_group_df, sub_column),
                               sub_column, main_value, g, Len(named) + 1)

\* the default sub-group 'All Items' (lines 1131-1155); the item name is the
\* first column of the row
DefaultSubGroup(d, main_group_df, main_value, g) ==
    ColumnSubGroup(generate_group_id(g, 1),
                   <<"A","l","l"," ","I","t","e","m","s">>,
                   [n \in 1..Len(main_group_df) |->
                       ColumnItem(d, main_group_df[n],
                                  Str(RowAt(d, main_group_df[n]).main), main_value)],
                   FALSE)

\* the sub-groups of one main group (lines 1061-1156)
ColumnSubGroups(d, main_group_df, sub_column, main_value, g) ==
    IF Truthy(sub_column) /\ sub_column \in Columns
    THEN WithUngroupedSubGroup(NamedSubGroups(d, main_group_df, sub_column, main_value, g),
                               d, main_group_df, sub_column, main_value, g)
    ELSE << DefaultSubGroup(d, main_group_df, main_value, g) >>

\* a main group with its totals (lines 1049-1058, 1158-1164)
ColumnMainGroupOf(main_value, g, sub_groups) ==
    [id |-> generate_group_id(g, 0),
     name |-> clean_group_name(Str(main_value)),
     type |-> "main",
     enabled |-> TRUE,
     sub_groups |-> sub_groups,
     items |-> <<>>,
     count |-> SumSeq([k \in 1..Len(sub_groups) |-> sub_groups[k].count]),
     item_count |-> SumSeq([k \in 1..Len(sub_groups) |-> sub_groups[k].count]),
     estimated_savings |->
        calculate_estimated_savings(
            Flatten([k \in 1..Len(sub_groups) |-> sub_groups[k].items]))]

\* one main group of create_groups_from_columns (lines 1046-1166)
ColumnMainGroup(d, main_column, sub_column, main_value, g) ==
    ColumnMainGroupOf(main_value, g,
        ColumnSubGroups(d, RowsWith(d, AllIndex(d), main_column, main_value),
                        sub_column, main_value, g))

ColumnMainGroups(d, main_column, sub_column, main_groups) ==
    [g \in 1..Len(main_groups) |->
        ColumnMainGroup(d, main_column, sub_column, main_groups[g], g)]

\* create_groups_from_columns
create_groups_from_columns(d, main_column, sub_column) ==
    IF Truthy(main_column) /\ main_column \in Columns
    THEN ColumnMainGroups(d, main_column, sub_column,
                          NonBlankKeys(d, AllIndex(d), main_column))
    ELSE <<>>

\* one group of create_groups_from_single_column (lines 1193-1232)
SingleColumnGroup(value, g, group_items) ==
    [id |-> generate_group_id(g, 0),
     name |-> clean_group_name(Str(value)),
     type |-> "main",
     enabled |-> TRUE,
     sub_groups |-> << ColumnSubGroup(generate_group_id(g, 1), <<"A","l","l"," ","I","t","e","m","s">>,
                                      group_items, FALSE) >>,
     items |-> <<>>,
     count |-> Len(group_items),
     item_count |-> Len(group_items),
     estimated_savings |-> calculate_estimated_savings(group_items)]

SingleColumnItems(d, column, value, group_df) ==
    [n \in 1..Len(group_df) |->
        ColumnItem(d, group_df[n], Str(RowAt(d, group_df[n])[column]), value)]

SingleColumnGroups(d, column, column_groups) ==
    [g \in 1..Len(column_groups) |->
        SingleColumnGroup(column_groups[g], g,
            SingleColumnItems(d, column, column_groups[g],
                              RowsWith(d, AllIndex(d), column, column_groups[g])))]

\* create_groups_from_single_column
create_groups_from_single_column(d, column) ==
    IF column \notin Columns THEN <<>>
    ELSE SingleColumnGroups(d, column, NonBlankKeys(d, AllIndex(d), column))

\* the items of all sub-groups of all main groups, in order
AllSubGroupItems(gs) == Flatten([g \in 1..Len(gs) |-> SubGroupItems(gs[g])])

\* the original_index values of a sequence of items
OriginalIndices(items) ==
    {items[n].original_index :
        n \in {m \in 1..Len(items) : "original_index" \in DOMAIN items[m]}}

\* the original_index values of the items of all sub-groups (lines 878-883)
grouped_indices(gs) == OriginalIndices(AllSubGroupItems(gs))

\* add_counts_to_ungrouped_items
add_counts_to_ungrouped_items(ungrouped_items) ==
    [n \in 1..Len(ungrouped_items) |->
        SetField(SetField(ungrouped_items[n],
                          "count", GetField(ungrouped_items[n], "quantity", 1)),
                 "quantity", GetField(ungrouped_items[n], "quantity", 1))]

\* the rows with the given indices as generate_groups_with_config adds them to
\* ungrouped_items (lines 888-892)
RowItems(d, missed) ==
    [n \in 1..Len(missed) |->
        [main |-> RowAt(d, missed[n]).main,
         sub |-> RowAt(d, missed[n]).sub,
         count |-> 1,
         id |-> IntToStr(missed[n]),
         original_index |-> IntIndex(missed[n]),
         source_row |-> missed[n]]]

\* the indices of d that are not in the set indices
IndicesNotIn(d, indices) == SelectSeq(AllIndex(d), LAMBDA i : IntIndex(i) \notin indices)

\* the rows missed by the groups (lines 886-892)
MissedRowItems(d, gs) == RowItems(d, IndicesNotIn(d, grouped_indices(gs)))

\* the result of generate_groups_with_config (lines 871-909); v is what
\* validate_and_count_groups made of the groups
ConfigResult(d, v) ==
    [kind |-> "result",
     groups |-> v.groups,
     ungrouped_items |->
        add_counts_to_ungrouped_items(
            IF v.report.counts.ungrouped_records > 0
            THEN MissedRowItems(d, v.groups)
            ELSE <<>>),
     validation |-> v.report,
     total_items |-> v.report.counts.total_rows,
     grouped_items |-> v.report.counts.grouped_records,
     ungrouped_count |-> v.report.counts.ungrouped_records,
     total_groups |-> v.report.counts.main_groups,
     total_sub_groups |-> v.report.counts.total_sub_groups,
     estimated_time_saved |-> calculate_estimated_savings(d),
     is_valid |-> v.report.is_valid,
     processing_method |-> "all_records_processed"]

\* generate_groups_with_config
generate_groups_with_config(d, use_main_groups, main_group_column, sub_group_column) ==
    ConfigResult(d,
        ValidateAndCountGroups(
            IF use_main_groups /\ Truthy(main_group_column)
            THEN create_groups_from_columns(d, main_group_column, sub_group_column)
            ELSE create_groups_from_single_column(d, sub_group_column),
            Len(d)))

(***************************************************************************)
(* Unique-value grouping                                                   *)
(***************************************************************************)
\* number of rows of d whose cell in column equals value
ValueCount(d, column, value) == Len(RowsWith(d, AllIndex(d), column, value))

\* the numbers of a finite set in rising order
Ascending(S) ==
    [n \in 1..Cardinality(S) |->
        CHOOSE x \in S : Cardinality({y \in S : y < x}) = n - 1]

\* the elements of a sequence at the given positions
ValuesAtPositions(s, positions) == [n \in 1..Len(positions) |-> s[positions[n]]]

\* the items of a sequence of assignments
ItemsOf(rows) == [n \in 1..Len(rows) |-> rows[n].item]

\* the positions of d at which a non-null value of the column appears first
FirstPositions(d, column) ==
    {k \in 1..Len(d) :
        /\ ~IsNa(d[k][column])
        /\ \A j \in 1..(k - 1) : d[j][column] # d[k][column]}

ValuesAt(d, column, positions) == [n \in 1..Len(positions) |-> d[positions[n]][column]]

\* the values of the column in order of first appearance, NaN left out
FirstAppearance(d, column) == ValuesAt(d, column, Ascending(FirstPositions(d, column)))

\* insert value v into a sequence ordered by falling count, behind the values
\* of the same count
RECURSIVE InsertByCount(_, _, _, _)
InsertByCount(d, column, sorted, v) ==
    IF sorted = <<>> THEN <<v>>
    ELSE IF ValueCount(d, column, Head(sorted)) >= ValueCount(d, column, v)
         THEN <<Head(sorted)>> \o InsertByCount(d, column, Tail(sorted), v)
         ELSE <<v>> \o sorted

RECURSIVE SortByCount(_, _, _)
SortByCount(d, column, values) ==
    IF values = <<>> THEN <<>>
    ELSE InsertByCount(d, column,
                       SortByCount(d, column, SubSeq(values, 1, Len(values) - 1)),
                       values[Len(values)])

\* the index of df[column].value_counts(): NaN is dropped, the most frequent
\* value comes first, values of equal count stay in order of first appearance
value_counts(d, column) == SortByCount(d, column, FirstAppearance(d, column))

\* f"{min(30, len(items) * 2)}%"
UniqueValueSavings(items) == IntToStr(Min(30, Len(items) * 2)) \o <<"%">>

\* a main group with its single sub-group (lines 2362-2378)
UniqueValueGroupOf(unique_value, g, items) ==
    [id |-> generate_group_id(g, 0),
     name |-> Str(unique_value),
     enabled |-> TRUE,
     type |-> "main",
     items |-> <<>>,
     sub_groups |-> << [id |-> generate_group_id(g, 1),
                        name |-> Str(unique_value) \o <<" ","I","t","e","m","s">>,
                        items |-> items,
                        count |-> Len(items),
                        item_count |-> Len(items)] >>,
     count |-> Len(items),
     item_count |-> Len(items),
     estimated_savings |-> UniqueValueSavings(items)]

\* the items of the rows with the given indices (lines 2356-2359, 2389-2391)
ItemsFromRows(d, rows, main_value, sub_value) ==
    [n \in 1..Len(rows) |-> create_item_from_row(d, rows[n], main_value, sub_value)]

\* one main group of generate_main_groups_from_unique_values (lines 2352-2380)
UniqueValueGroup(d, column_name, unique_value, g) ==
    UniqueValueGroupOf(unique_value, g,
        ItemsFromRows(d, RowsWith(d, AllIndex(d), column_name, unique_value),
                      Str(unique_value), Str(unique_value)))

UniqueValueGroups(d, column_name, unique_values) ==
    [g \in 1..Len(unique_values) |-> UniqueValueGroup(d, column_name, unique_values[g], g)]

\* df[pd.isna(df[column_name]) | (df[column_name].astype(str).str.strip() == '')]
null_rows(d, column_name) ==
    SelectSeq(AllIndex(d),
              LAMBDA i : IsNa(RowAt(d, i)[column_name])
                         \/ Strip(Str(RowAt(d, i)[column_name])) = <<>>)

\* the result of a call that caught an exception and returned None
ReturnedNone == [kind |-> "None"]

\* the result of generate_main_groups_from_unique_values (lines 2385-2410);
\* created holds the groups before and v after validate_and_count_groups
UniqueValueResult(d, column_name, created, ungrouped_items, v) ==
    [kind |-> "result",
     groups |-> v.groups,
     ungrouped_items |-> ungrouped_items,
     validation |-> v.report,
     total_items |-> Len(d),
     grouped_items |->
        SumSeq([g \in 1..Len(created) |-> Len(created[g].sub_groups[1].items)]),
     ungrouped_count |-> Len(ungrouped_items),
     total_groups |-> Len(created),
     total_sub_groups |-> Len(created),
     estimated_time_saved |-> calculate_estimated_savings(d),
     is_valid |-> v.report.is_valid,
     processing_method |-> "unique_values_main_groups",
     source_column |-> column_name]

UniqueValueValidated(d, column_name, created) ==
    UniqueValueResult(d, column_name, created,
        ItemsFromRows(d, null_rows(d, column_name), <<"U","n","g","r","o","u","p","e","d">>, <<"N","o"," ","V","a","l","u","e">>),
        ValidateAndCountGroups(created, Len(d)))

\* generate_main_groups_from_unique_values
generate_main_groups_from_unique_values(d, column_name) ==
    IF column_name \notin Columns THEN ReturnedNone
    ELSE UniqueValueValidated(d, column_name,
            UniqueValueGroups(d, column_name,
                SelectSeq(value_counts(d, column_name), LAMBDA v : ~IsBlankValue(v))))

(***************************************************************************)
(* Datasets and the calls of the column-driven and unique-value engines    *)
(***************************************************************************)
MaxRows == 2

MainCells == { NaN, <<" ">>, <<"a">>, <<"A">> }

SubCells == { NaN, <<" ">>, <<"x">>, <<" ","x">> }

RowPool == [main : MainCells, sub : SubCells]

Datasets == UNION { [1..n -> RowPool] : n \in 0..MaxRows }

\* column arguments: none, a column of the dataset, a column it does not have
MainColumnArgs == { None, "main", "absent" }

SubColumnArgs == { None, "sub", "absent" }

\* the validator of the validator specification is not used on its own here
ValidatorIdle ==
    /\ groups = <<>>
    /\ total_rows = 0
    /\ report = NoReport
    /\ prev = NoPrev
    /\ calls = 0

InitColumns ==
    /\ df \in Datasets
    /\ request = NoRequest
    /\ result = NoResult
    /\ ValidatorIdle
    /\ OracleIdle
    /\ ManageIdle

GenerateGroupsWithConfig ==
    /\ request = NoRequest
    /\ \E use_main_groups \in BOOLEAN, main_group_column \in MainColumnArgs,
          sub_group_column \in SubColumnArgs :
          /\ request' = [op |-> "generate_groups_with_config",
                         use_main_groups |-> use_main_groups,
                         main_group_column |-> main_group_column,
                         sub_group_column |-> sub_group_column]
          /\ result' = generate_groups_with_config(df, use_main_groups,
                                                   main_group_column, sub_group_column)
    /\ UNCHANGED <<df, validatorVars, manageVars, oracleVars>>

GenerateMainGroupsFromUniqueValues ==
    /\ request = NoRequest
    /\ \E column_name \in Columns \cup {"absent"} :
          /\ request' = [op |-> "generate_main_groups_from_unique_values",
                         column_name |-> column_name]
          /\ result' = generate_main_groups_from_unique_values(df, column_name)
    /\ UNCHANGED <<df, validatorVars, manageVars, oracleVars>>

NextColumns ==
    \/ GenerateGroupsWithConfig
    \/ GenerateMainGroupsFromUniqueValues

SpecColumns == InitColumns /\ [][NextColumns]_vars

\* how often the row with index i occurs among the items of all sub-groups and
\* the ungrouped items of a result
Occurrences(r, i) ==
    LET items == AllSubGroupItems(r.groups) \o r.ungrouped_items
    IN  Cardinality({n \in 1..Len(items) : items[n].source_row = i})

\* sum of the counts of all sub-groups of a result
SubGroupCountSum(r) ==
    SumSeq([g \in 1..Len(r.groups) |->
              SumSeq([k \in 1..Len(r.groups[g].sub_groups) |->
                        r.groups[g].sub_groups[k].count])])

\* C1: column-driven grouping with an existing main column and an existing or
\* no sub column returns a result in which every input row occurs exactly once
\* across the items of all sub-groups and ungrouped_items, and the sub-group
\* counts plus len(ungrouped_items) equal the number of input rows.
C1_ColumnCoverage ==
    ( /\ request.op = "generate_groups_with_config"
      /\ request.use_main_groups
      /\ request.main_group_column \in Columns
      /\ request.sub_group_column \in Columns \cup {None} )
    => /\ result.kind = "result"
       /\ \A i \in 0..(Len(df) - 1) : Occurrences(result, i) = 1
       /\ SubGroupCountSum(result) + Len(result.ungrouped_items) = Len(df)

\* the distinct non-null, non-blank values of a column
DistinctValues(d, column) ==
    {d[k][column] : k \in 1..Len(d)} \ {v \in {d[k][column] : k \in 1..Len(d)} :
                                          IsNa(v) \/ Strip(Str(v)) = <<>>}

\* the source rows of a sequence of items
SourceRows(items) == {items[n].source_row : n \in 1..Len(items)}

\* C4: unique-value grouping on an existing column returns exactly one main
\* group per distinct non-null, non-blank value, named after the value and
\* with count equal to the number of rows holding it; ungrouped_items holds
\* exactly the rows whose value is null or blank; grouped + ungrouped is the
\* number of rows.
C4_UniqueValueGroups ==
    ( /\ request.op = "generate_main_groups_from_unique_values"
      /\ request.column_name \in Columns )
    => LET column == request.column_name
           values == DistinctValues(df, column)
       IN  /\ result.kind = "result"
           /\ Len(result.groups) = Cardinality(values)
           /\ \A v \in values :
                \E g \in 1..Len(result.groups) :
                   /\ result.groups[g].name = v
                   /\ result.groups[g].count = ValueCount(df, column, v)
                   /\ \A h \in 1..Len(result.groups) :
                        result.groups[h].name = v => h = g
           /\ Len(result.ungrouped_items) =
                Cardinality(SourceRows(result.ungrouped_items))
           /\ SourceRows(result.ungrouped_items) =
                {i \in 0..(Len(df) - 1) :
                    IsNa(RowAt(df, i)[column]) \/ Strip(Str(RowAt(df, i)[column])) = <<>>}
           /\ result.grouped_items + result.ungrouped_count = Len(df)
           /\ result.validation.counts.grouped_records + Len(result.ungrouped_items)
                = Len(df)

\* a unique-value result with a main group of two rows, or with a main group
\* and an ungrouped row
C4_Witness ==
    /\ request.op = "generate_main_groups_from_unique_values"
    /\ request.column_name \in Columns
    /\ result.kind = "result"
    /\ Len(result.groups) >= 1
    /\ Len(result.ungrouped_items) >= 1


(***************************************************************************)
(* difflib.SequenceMatcher(None, a, b).ratio()                             *)
(*                                                                         *)
(* Positions are 1-based; a block is a[i .. i+k-1] = b[j .. j+k-1].        *)
(***************************************************************************)
\* length of the common run of a from i and b from j, inside a[..ahi], b[..bhi]
RECURSIVE MatchLen(_, _, _, _, _, _)
MatchLen(a, b, i, j, ahi, bhi) ==
    IF i <= ahi /\ j <= bhi /\ a[i] = b[j]
    THEN 1 + MatchLen(a, b, i + 1, j + 1, ahi, bhi)
    ELSE 0

\* the length of the longest block inside a[alo..ahi], b[blo..bhi]
LongestLen(a, b, alo, ahi, blo, bhi) ==
    MaxOf({0} \cup {MatchLen(a, b, i, j, ahi, bhi) : i \in alo..ahi, j \in blo..bhi})

\* where the longest block starts in a: the earliest start
LongestStartA(a, b, alo, ahi, blo, bhi, k) ==
    MinOf({i \in alo..ahi : \E j \in blo..bhi : MatchLen(a, b, i, j, ahi, bhi) = k})

\* where the block of length k that starts at i in a starts in b: the earliest
LongestStartB(a, b, i, ahi, blo, bhi, k) ==
    MinOf({j \in blo..bhi : MatchLen(a, b, i, j, ahi, bhi) = k})

\* number of matched characters: the longest block, then recursively the
\* pieces to its left and to its right (get_matching_blocks)
RECURSIVE MatchedChars(_, _, _, _, _, _)
RECURSIVE MatchedAround(_, _, _, _, _, _, _, _, _)
MatchedAround(a, b, alo, ahi, blo, bhi, i, j, k) ==
    k + MatchedChars(a, b, alo, i - 1, blo, j - 1)
      + MatchedChars(a, b, i + k, ahi, j + k, bhi)

MatchedFrom(a, b, alo, ahi, blo, bhi, i, k) ==
    MatchedAround(a, b, alo, ahi, blo, bhi, i, LongestStartB(a, b, i, ahi, blo, bhi, k), k)

MatchedWith(a, b, alo, ahi, blo, bhi, k) ==
    IF k = 0 THEN 0
    ELSE MatchedFrom(a, b, alo, ahi, blo, bhi,
                     LongestStartA(a, b, alo, ahi, blo, bhi, k), k)

MatchedChars(a, b, alo, ahi, blo, bhi) ==
    IF alo > ahi \/ blo > bhi THEN 0
    ELSE MatchedWith(a, b, alo, ahi, blo, bhi, LongestLen(a, b, alo, ahi, blo, bhi))

\* ratio() as the fraction <<numerator, denominator>>: 2.0 * matches / length,
\* 1.0 when both strings are empty
Ratio(a, b) ==
    IF Len(a) + Len(b) = 0 THEN <<1, 1>>
    ELSE <<2 * MatchedChars(a, b, 1, Len(a), 1, Len(b)), Len(a) + Len(b)>>

\* comparison of two fractions with positive denominators
FracGreater(p, q) == p[1] * q[2] > q[1] * p[2]

FracAtLeast(p, q) == p[1] * q[2] >= q[1] * p[2]

(***************************************************************************)
(* Grouping plans                                                          *)
(*                                                                         *)
(* A Python dict that is iterated is a sequence of entries in insertion    *)
(* order; every entry carries its key in the field name.                   *)
(***************************************************************************)
\* does the dict have the key
HasKey(dict, key) == \E n \in 1..Len(dict) : dict[n].name = key

\* dict[key] = entry: an existing key keeps its place and gets the new entry
DictSet(dict, entry) ==
    IF HasKey(dict, entry.name)
    THEN [n \in 1..Len(dict) |-> IF dict[n].name = entry.name THEN entry ELSE dict[n]]
    ELSE Append(dict, entry)

\* str.replace(" ", "_")
ReplaceSpaces(s) == [n \in 1..Len(s) |-> IF s[n] = " " THEN "_" ELSE s[n]]

\* one mapping of the fallback plan (lines 2009-2015)
FallbackMappingOf(clean_name, value, count) ==
    [name |-> clean_name,
     core_type |-> ReplaceSpaces(Lower(clean_name)),
     original_values |-> <<value>>,
     total_count |-> count,
     reasoning |-> "Direct mapping (fallback)"]

FallbackMapping(value, count) == FallbackMappingOf(clean_group_name(value), value, count)

\* the mappings of the fallback plan for a list of values (lines 2004-2015)
RECURSIVE FallbackMappings(_, _, _)
FallbackMappings(unique_values, counts, i) ==
    IF i = 0 THEN <<>>
    ELSE DictSet(FallbackMappings(unique_values, counts, i - 1),
                 FallbackMapping(unique_values[i],
                                 IF i <= Len(counts) THEN counts[i] ELSE 0))

\* create_fallback_grouping_plan
create_fallback_grouping_plan(main_unique_values, main_value_counts, sub_unique_values, sub_value_counts) ==
    [main_group_mappings |->
        FallbackMappings(main_unique_values, main_value_counts, Len(main_unique_values)),
     sub_group_mappings |->
        FallbackMappings(sub_unique_values, sub_value_counts, Len(sub_unique_values)),
     grouping_strategy |->
        [approach |-> "fallback_direct_mapping",
         total_main_groups |-> Len(main_unique_values),
         total_sub_groups |-> Len(sub_unique_values),
         coverage_percentage |-> 100]]

\* the score find_best_group_match gives one original value (lines 2177-2181)
MatchScore(value_lower, original_lower) ==
    IF IsSubstr(value_lower, original_lower) \/ IsSubstr(original_lower, value_lower)
    THEN <<4, 5>>
    ELSE Ratio(value_lower, original_lower)

\* the threshold of find_best_group_match, 0.6
MatchThreshold == <<3, 5>>

\* one step of the loops of find_best_group_match: best is the pair of
\* best_match and best_score so far
BestAfter(best, group_name, score) ==
    IF FracGreater(score, best.score) /\ FracAtLeast(score, MatchThreshold)
    THEN [match |-> group_name, score |-> score]
    ELSE best

RECURSIVE BestOverValues(_, _, _, _, _)
BestOverValues(best, value_lower, group_name, original_values, n) ==
    IF n > Len(original_values) THEN best
    ELSE BestOverValues(
            BestAfter(best, group_name, MatchScore(value_lower, Lower(original_values[n]))),
            value_lower, group_name, original_values, n + 1)

RECURSIVE BestOverMappings(_, _, _, _)
BestOverMappings(best, value_lower, mappings, m) ==
    IF m > Len(mappings) THEN best
    ELSE BestOverMappings(
            BestOverValues(best, value_lower, mappings[m].name,
                           mappings[m].original_values, 1),
            value_lower, mappings, m + 1)

\* find_best_group_match; the result None is the value <<None>>
find_best_group_match(value, mappings) ==
    BestOverMappings([match |-> <<None>>, score |-> <<0, 1>>],
                     Lower(value), mappings, 1).match


(***************************************************************************)
(* Applying a grouping plan                                                *)
(***************************************************************************)
\* a group name that is neither None nor empty
IsName(name) == name # <<None>> /\ name # <<>>

\* x or y
OrElse(x, y) == IF IsName(x) THEN x ELSE y

\* value_to_group.get(value): the reverse lookup built in lines 2047-2055; of
\* the mappings that list the value the last one wins
RECURSIVE ValueToGroup(_, _, _)
ValueToGroup(mappings, value, m) ==
    IF m = 0 THEN <<None>>
    ELSE IF \E n \in 1..Len(mappings[m].original_values) :
                mappings[m].original_values[n] = value
         THEN mappings[m].name
         ELSE ValueToGroup(mappings, value, m - 1)

\* the group of a value: by the plan, else by fuzzy match, else a new group
\* named after the value (lines 2071-2076, 2092-2097)
PlanGroupName(value, mappings) ==
    OrElse(ValueToGroup(mappings, value, Len(mappings)),
           OrElse(find_best_group_match(value, mappings), clean_group_name(value)))

\* row.get(column, ''): the cell, '' when the row has no such column
RowGet(row, column) == IF column \in Columns THEN row[column] ELSE <<>>

\* main_value of a row (line 2063)
PlanMainValue(row, main_column) == Strip(Str(RowGet(row, main_column)))

\* sub_value of a row (line 2064)
PlanSubValue(row, sub_column) ==
    IF Truthy(sub_column) THEN Strip(Str(RowGet(row, sub_column))) ELSE <<>>

\* the sub-group a row goes to (lines 2091-2126)
PlanSubGroupName(sub_column, sub_value, sub_mappings) ==
    IF Truthy(sub_column) /\ sub_value # <<>>
    THEN PlanGroupName(sub_value, sub_mappings)
    ELSE <<"A","l","l"," ","I","t","e","m","s">>

\* what the row loop does with the row of index i (lines 2062-2128): the row is
\* skipped, or an item built from it goes to a sub-group of a group; the names
\* depend on the row and the plan alone
PlanAssignment(d, i, main_column, main_value, sub_column, sub_value, main_mappings, sub_mappings) ==
    IF main_value = <<>> \/ IsNa(RowGet(RowAt(d, i), main_column))
    THEN [skipped |-> TRUE]
    ELSE [skipped |-> FALSE,
          group_name |-> PlanGroupName(main_value, main_mappings),
          sub_group_name |-> PlanSubGroupName(sub_column, sub_value, sub_mappings),
          item |-> create_item_from_row(d, i, main_value, sub_value)]

\* the assignments of the rows that are not skipped, in row order
PlanAssignments(d, main_column, sub_column, main_mappings, sub_mappings) ==
    SelectSeq([k \in 1..Len(d) |->
                  PlanAssignment(d, k - 1, main_column,
                                 PlanMainValue(d[k], main_column),
                                 sub_column,
                                 PlanSubValue(d[k], sub_column),
                                 main_mappings, sub_mappings)],
              LAMBDA r : ~r.skipped)

\* the keys of a dict filled in the order of the sequence keys: each key at the
\* place of its first occurrence
InsertionOrder(keys) ==
    ValuesAtPositions(keys,
        Ascending({k \in 1..Len(keys) : \A j \in 1..(k - 1) : keys[j] # keys[k]}))

\* the sub-groups of a group in the array format (lines 2133-2140); rows are
\* the assignments to the group
PlanSubGroupsOf(rows, sub_names, g) ==
    [k \in 1..Len(sub_names) |->
        [id |-> generate_group_id(g, k),
         name |-> sub_names[k],
         items |-> ItemsOf(SelectSeq(rows, LAMBDA r : r.sub_group_name = sub_names[k])),
         count |-> Len(SelectSeq(rows, LAMBDA r : r.sub_group_name = sub_names[k]))]]

\* a group in the array format (lines 2142-2153)
PlanGroupOf(group_name, rows, g) ==
    [id |-> generate_group_id(g, 0),
     name |-> group_name,
     type |-> "main",
     enabled |-> TRUE,
     sub_groups |->
        PlanSubGroupsOf(rows, InsertionOrder([k \in 1..Len(rows) |-> rows[k].sub_group_name]), g),
     count |-> Len(rows),
     item_count |-> Len(rows),
     estimated_savings |-> calculate_estimated_savings(ItemsOf(rows))]

PlanGroupsOf(assignments, group_names) ==
    [g \in 1..Len(group_names) |->
        PlanGroupOf(group_names[g],
                    SelectSeq(assignments, LAMBDA r : r.group_name = group_names[g]), g)]

\* main_groups_data in the array format: the groups in the order in which the
\* row loop created them, their sub-groups likewise, the items in row order
PlanGroups(assignments) ==
    PlanGroupsOf(assignments,
                 InsertionOrder([k \in 1..Len(assignments) |-> assignments[k].group_name]))

\* apply_ai_grouping_plan
apply_ai_grouping_plan(d, grouping_plan, main_column, sub_column) ==
    IF Truthy(main_column) /\ main_column \in Columns
    THEN PlanGroups(PlanAssignments(d, main_column, sub_column,
                                    grouping_plan.main_group_mappings,
                                    grouping_plan.sub_group_mappings))
    ELSE <<>>

(***************************************************************************)
(* AI-powered grouping by columns                                          *)
(***************************************************************************)
\* the values of df[column].unique() that are neither null nor blank, in order
\* of first appearance (lines 1748-1753)
KeptUnique(d, column) ==
    SelectSeq(FirstAppearance(d, column), LAMBDA v : Strip(Str(v)) # <<>>)

\* main_unique_values / sub_unique_values: the kept values, stripped
StrippedValues(kept) == [n \in 1..Len(kept) |-> Strip(Str(kept[n]))]

\* main_value_counts / sub_value_counts: the counts of the kept values
CountsOf(d, column, kept) == [n \in 1..Len(kept) |-> ValueCount(d, column, kept[n])]

ColumnUniqueValues(d, column) ==
    IF Truthy(column) /\ column \in Columns THEN StrippedValues(KeptUnique(d, column))
    ELSE <<>>

ColumnValueCounts(d, column) ==
    IF Truthy(column) /\ column \in Columns THEN CountsOf(d, column, KeptUnique(d, column))
    ELSE <<>>

\* what one call of the oracle does: it raises, it answers with text that is
\* not a plan, or it answers with a plan
OraclePlan ==
    [main_group_mappings |->
        << [name |-> <<"L","e","t","t","e","r","s">>, core_type |-> <<"l","e","t","t","e","r","s">>,
            original_values |-> << <<"a">> >>, total_count |-> 1,
            reasoning |-> "oracle"] >>,
     sub_group_mappings |->
        << [name |-> <<"T","h","i","n","g","s">>, core_type |-> <<"t","h","i","n","g","s">>,
            original_values |-> << <<"x">> >>, total_count |-> 1,
            reasoning |-> "oracle"] >>,
     grouping_strategy |->
        [approach |-> "core_product_classification",
         total_main_groups |-> 1,
         total_sub_groups |-> 1,
         coverage_percentage |-> 95]]

OracleOutcomes ==
    { [kind |-> "raises"], [kind |-> "malformed"], [kind |-> "plan", plan |-> OraclePlan] }

\* create_ai_grouping_plan, given what its oracle call does: the plan of the
\* oracle, or the fallback plan when the call raised or its answer did not
\* parse into a plan with the required keys (lines 1983-1986)
create_ai_grouping_plan(main_unique_values, main_value_counts, sub_unique_values, sub_value_counts, outcome) ==
    IF outcome.kind = "plan" THEN outcome.plan
    ELSE create_fallback_grouping_plan(main_unique_values, main_value_counts,
                                       sub_unique_values, sub_value_counts)

\* if len(ungrouped_items) >= 100: break
UngroupedLimit == 100

\* the first limit elements of a sequence
Take(s, limit) == SubSeq(s, 1, Min(Len(s), limit))

\* the ungrouped items of the result (lines 1806-1824)
AIUngroupedItems(d, v) ==
    IF v.report.counts.ungrouped_records > 0
    THEN ItemsFromRows(d, Take(IndicesNotIn(d, grouped_indices(v.groups)), UngroupedLimit),
                       <<"U","n","g","r","o","u","p","e","d">>, <<"U","n","g","r","o","u","p","e","d"," ","I","t","e","m">>)
    ELSE <<>>

\* the result of generate_ai_powered_groups_from_columns (lines 1827-1840)
AIResult(d, grouping_plan, v) ==
    [kind |-> "result",
     groups |-> v.groups,
     ungrouped_items |-> AIUngroupedItems(d, v),
     validation |-> v.report,
     total_items |-> v.report.counts.total_rows,
     grouped_items |-> v.report.counts.grouped_records,
     ungrouped_count |-> v.report.counts.ungrouped_records,
     total_groups |-> v.report.counts.main_groups,
     total_sub_groups |-> v.report.counts.total_sub_groups,
     estimated_time_saved |-> calculate_estimated_savings(d),
     is_valid |-> v.report.is_valid,
     processing_method |-> "ai_powered_column_analysis",
     ai_grouping_plan |-> grouping_plan]

\* steps 4 to 7 (lines 1796-1849)
AIApplied(d, grouping_plan, main_group_column, sub_group_column) ==
    AIResult(d, grouping_plan,
        ValidateAndCountGroups(
            apply_ai_grouping_plan(d, grouping_plan, main_group_column, sub_group_column),
            Len(d)))

\* generate_ai_powered_groups_from_columns, given what the oracle call does
generate_ai_powered_groups_from_columns(d, main_group_column, sub_group_column, outcome) ==
    AIApplied(d,
        create_ai_grouping_plan(ColumnUniqueValues(d, main_group_column),
                                ColumnValueCounts(d, main_group_column),
                                ColumnUniqueValues(d, sub_group_column),
                                ColumnValueCounts(d, sub_group_column),
                                outcome),
        main_group_column, sub_group_column)

(***************************************************************************)
(* Calls of the AI-powered engine                                          *)
(***************************************************************************)
\* rows that repeat in a dataset with more rows than the ungrouped limit
FillerRows == { [main |-> NaN, sub |-> <<"x">>], [main |-> <<"a">>, sub |-> NaN] }

LongDatasets == { [n \in 1..(UngroupedLimit + 1) |-> r] : r \in FillerRows }

InitAI ==
    /\ df \in Datasets \cup LongDatasets
    /\ request = NoRequest
    /\ result = NoResult
    /\ ValidatorIdle
    /\ OracleIdle
    /\ ManageIdle

GenerateAIPoweredGroupsFromColumns ==
    /\ request = NoRequest
    /\ \E main_group_column \in MainColumnArgs, sub_group_column \in SubColumnArgs,
          outcome \in OracleOutcomes :
          /\ request' = [op |-> "generate_ai_powered_groups_from_columns",
                         main_group_column |-> main_group_column,
                         sub_group_column |-> sub_group_column,
                         oracle |-> outcome.kind]
          /\ result' = generate_ai_powered_groups_from_columns(
                          df, main_group_column, sub_group_column, outcome)
    /\ UNCHANGED <<df, validatorVars, manageVars, oracleVars>>

NextAI == GenerateAIPoweredGroupsFromColumns

SpecAI == InitAI /\ [][NextAI]_vars

\* C3: when the oracle call raises, generate_ai_powered_groups_from_columns
\* returns a result whose validation is valid and in which the items of all
\* sub-groups plus the ungrouped items are as many as the input rows, whatever
\* the main and sub column arguments and however many rows stay ungrouped.
C3_FallbackCoverage ==
    ( /\ request.op = "generate_ai_powered_groups_from_columns"
      /\ request.oracle = "raises" )
    => /\ result.kind = "result"
       /\ result.validation.is_valid
       /\ Len(AllSubGroupItems(result.groups)) + Len(result.ungrouped_items) = Len(df)


(***************************************************************************)
(* Plan requests, step by step                                             *)
(*                                                                         *)
(* A plan request is one invocation of create_ai_grouping_plan, or one     *)
(* invocation of create_ai_sub_grouping_plan by its caller                 *)
(* create_ai_sub_groups_for_main_group.  The oracle is called at lines     *)
(* 1950 and 3069 and nowhere else.                                         *)
(***************************************************************************)
MaxValues == 2

MainValuePool == { <<"a","b">>, <<"A","B">>, <<"a"," ","b">>, <<"a"," "," ","b">> }

SubValuePool == { <<"x">>, <<"X">> }

\* the lists of at most MaxValues distinct values of a pool
ValueLists(pool) ==
    UNION { {s \in [1..n -> pool] : \A i, j \in 1..n : s[i] = s[j] => i = j} :
            n \in 0..MaxValues }

\* every value was counted once
OnesFor(values) == [n \in 1..Len(values) |-> 1]

\* self.openai_api_key: a key, the demo key, no key
ApiKeys == { "key", "test-key-for-demo", "" }

\* what the oracle call of create_ai_sub_grouping_plan does: it raises, or it
\* answers with text without JSON, with JSON without 'sub_groups', with
\* 'sub_groups' that is not a list or is empty, or with a plan
SubOracleOutcomes ==
    { [kind |-> "raises"], [kind |-> "no_json"], [kind |-> "no_sub_groups"],
      [kind |-> "not_a_list"], [kind |-> "empty_list"], [kind |-> "plan"] }

\* where a request goes when its oracle call raised: to its except clause
\* (lines 1983, 3095-3098 and 3153)
AfterOracleErrorRetry(prompt_pc, except_pc) == prompt_pc

AfterOracleError(prompt_pc, except_pc) == except_pc

\* create_ai_grouping_plan is called (lines 1861-1947: the prompt is built)
StartGroupingPlan ==
    /\ pc \in {"idle", "done"}
    /\ \E main_unique_values \in ValueLists(MainValuePool),
          sub_unique_values \in ValueLists(SubValuePool) :
          request' = [op |-> "create_ai_grouping_plan",
                      main_unique_values |-> main_unique_values,
                      main_value_counts |-> OnesFor(main_unique_values),
                      sub_unique_values |-> sub_unique_values,
                      sub_value_counts |-> OnesFor(sub_unique_values)]
    /\ pc' = "prompt"
    /\ oracle_calls' = 0
    /\ response' = NoResponse
    /\ result' = NoResult
    /\ UNCHANGED <<df, validatorVars, manageVars>>

\* the oracle call of line 1950
CallOracleForPlan ==
    /\ pc = "prompt"
    /\ oracle_calls' = oracle_calls + 1
    /\ \E outcome \in OracleOutcomes :
          /\ response' = outcome
          /\ pc' = IF outcome.kind = "raises"
                   THEN AfterOracleError("prompt", "except")
                   ELSE "parse"
    /\ UNCHANGED <<df, request, result, validatorVars, manageVars>>

\* the answer is parsed and checked for the required keys (lines 1961-1981)
ParsePlan ==
    /\ pc = "parse"
    /\ IF response.kind = "plan"
       THEN /\ result' = [kind |-> "plan", plan |-> response.plan]
            /\ pc' = "done"
       ELSE /\ result' = result
            /\ pc' = "except"
    /\ UNCHANGED <<df, request, validatorVars, manageVars, oracle_calls, response>>

\* the except clause returns the fallback plan (lines 1983-1986)
FallbackPlan ==
    /\ pc = "except"
    /\ result' = [kind |-> "plan",
                  plan |-> create_fallback_grouping_plan(
                              request.main_unique_values, request.main_value_counts,
                              request.sub_unique_values, request.sub_value_counts)]
    /\ pc' = "done"
    /\ UNCHANGED <<df, request, validatorVars, manageVars, oracle_calls, response>>

\* create_ai_sub_groups_for_main_group calls create_ai_sub_grouping_plan
\* (lines 2617-2620)
StartSubGroupingPlan ==
    /\ pc \in {"idle", "done"}
    /\ \E unique_values \in ValueLists(MainValuePool), openai_api_key \in ApiKeys :
          request' = [op |-> "create_ai_sub_groups_for_main_group",
                      unique_values |-> unique_values,
                      value_counts |-> OnesFor(unique_values),
                      openai_api_key |-> openai_api_key]
    /\ pc' = "sub_check"
    /\ oracle_calls' = 0
    /\ response' = NoResponse
    /\ result' = NoResult
    /\ UNCHANGED <<df, validatorVars, manageVars>>

\* the checks before the prompt (lines 2992-2999)
CheckSubGroupingPlan ==
    /\ pc = "sub_check"
    /\ pc' = IF \/ request.openai_api_key = ""
                \/ request.openai_api_key = "test-key-for-demo"
                \/ Len(request.unique_values) <= 1
             THEN "sub_except"
             ELSE "sub_prompt"
    /\ UNCHANGED <<df, request, result, validatorVars, manageVars, oracle_calls, response>>

\* the oracle call of line 3069
CallOracleForSubPlan ==
    /\ pc = "sub_prompt"
    /\ oracle_calls' = oracle_calls + 1
    /\ \E outcome \in SubOracleOutcomes :
          /\ response' = outcome
          /\ pc' = IF outcome.kind = "raises"
                   THEN AfterOracleError("sub_prompt", "sub_except")
                   ELSE "sub_parse"
    /\ UNCHANGED <<df, request, result, validatorVars, manageVars>>

\* the answer is parsed and checked (lines 3101-3151)
ParseSubPlan ==
    /\ pc = "sub_parse"
    /\ pc' = IF response.kind = "plan" THEN "sub_apply" ELSE "sub_except"
    /\ UNCHANGED <<df, request, result, validatorVars, manageVars, oracle_calls, response>>

\* the except clause returns None, which sends the caller to its fallback
\* (lines 3153-3158, 2622, 2639)
SubPlanNone ==
    /\ pc = "sub_except"
    /\ pc' = "sub_fallback"
    /\ UNCHANGED <<df, request, result, validatorVars, manageVars, oracle_calls, response>>

\* the caller applies the plan (lines 2622-2637); sub-groups that come out
\* empty, or an exception, send it to its fallback
ApplySubPlan ==
    /\ pc = "sub_apply"
    /\ \E applied \in BOOLEAN :
          IF applied
          THEN /\ result' = [kind |-> "sub_groups", method |-> "ai_plan"]
               /\ pc' = "done"
          ELSE /\ result' = result
               /\ pc' = "sub_fallback"
    /\ UNCHANGED <<df, request, validatorVars, manageVars, oracle_calls, response>>

\* the caller groups without the oracle (lines 2639-2662)
FallbackSubGroups ==
    /\ pc = "sub_fallback"
    /\ result' = [kind |-> "sub_groups", method |-> "fallback"]
    /\ pc' = "done"
    /\ UNCHANGED <<df, request, validatorVars, manageVars, oracle_calls, response>>

InitOracle ==
    /\ df = <<>>
    /\ request = NoRequest
    /\ result = NoResult
    /\ ValidatorIdle
    /\ OracleIdle
    /\ ManageIdle

NextOracle ==
    \/ StartGroupingPlan
    \/ CallOracleForPlan
    \/ ParsePlan
    \/ FallbackPlan
    \/ StartSubGroupingPlan
    \/ CheckSubGroupingPlan
    \/ CallOracleForSubPlan
    \/ ParseSubPlan
    \/ SubPlanNone
    \/ ApplySubPlan
    \/ FallbackSubGroups

SpecOracle == InitOracle /\ [][NextOracle]_vars

\* the distinct values of a list
ValuesOf(values) == {values[n] : n \in 1..Len(values)}

\* every distinct value is the sole original value of exactly one mapping, and
\* there are as many mappings as distinct values
DirectMapping(mappings, values) ==
    /\ Len(mappings) = Cardinality(ValuesOf(values))
    /\ \A v \in ValuesOf(values) :
          Cardinality({m \in 1..Len(mappings) : mappings[m].original_values = <<v>>}) = 1

\* the oracle call of the finished request failed: it raised or its answer
\* was no plan
OracleFailed == response.kind \in {"raises", "malformed"}

\* C9: when the oracle call fails, create_ai_grouping_plan returns a plan in
\* which each distinct main value, and each distinct sub value, is its own
\* group, also for values that differ only in letter case or inner whitespace.
C9_DirectMappingPlan ==
    ( /\ request.op = "create_ai_grouping_plan"
      /\ pc = "done"
      /\ OracleFailed )
    => /\ result.kind = "plan"
       /\ DirectMapping(result.plan.main_group_mappings, request.main_unique_values)
       /\ DirectMapping(result.plan.sub_group_mappings, request.sub_unique_values)

\* the pcs of a request whose oracle call failed or was not made for lack of
\* a key or of values
FailedPcs == {"except", "sub_except", "sub_fallback"}

\* C10: a plan request calls the oracle at most once, and once the call has
\* failed the request goes on to the deterministic fallback without another
\* oracle call: from an except clause the only steps are those to the
\* fallback, they leave the call count alone, and no step of a request that
\* already called the oracle calls it again.
C10_FailFast ==
    /\ [](oracle_calls <= 1)
    /\ [][ /\ (pc \in FailedPcs => /\ oracle_calls' = oracle_calls
                                   /\ pc' \in {"done", "sub_fallback"})
           /\ (oracle_calls = 1 /\ pc' \notin {"prompt", "sub_check"}
                 => oracle_calls' = 1) ]_vars

\* a request whose oracle call raised and that ended with the fallback
C10_Witness ==
    /\ pc = "done"
    /\ oracle_calls = 1
    /\ response.kind = "raises"
    /\ \/ /\ request.op = "create_ai_grouping_plan"
          /\ result.kind = "plan"
          /\ result.plan.grouping_strategy.approach = "fallback_direct_mapping"
       \/ /\ request.op = "create_ai_sub_groups_for_main_group"
          /\ result.kind = "sub_groups"
          /\ result.method = "fallback"

(***************************************************************************)
(* Product names: normalisation and the core-type classifier               *)
(*                                                                         *)
(* A product name here is made of letters, digits, "_" and spaces, and a   *)
(* digit occurs only in the default name Item_<index>, inside a word that  *)
(* starts with a letter.  A word is a maximal run of letters, digits and   *)
(* "_", which is where the \b of the patterns can match, so every pattern  *)
(* of the form \b(w1|w2|...)\b removes whole words.  The patterns that     *)
(* require a digit at a word boundary (model numbers, versions,            *)
(* generations, sizes with units, dimensions) match nowhere in such a name.*)
(***************************************************************************)
\* core_product_keywords, in the order of the dict
core_product_keywords ==
    << [category |-> <<"e","l","e","c","t","r","o","n","i","c","s">>,
        primary |-> <<<<"l","a","p","t","o","p">>, <<"c","o","m","p","u","t","e","r">>, <<"p","h","o","n","e">>, <<"t","a","b","l","e","t">>, <<"m","o","n","i","t","o","r">>, <<"s","c","r","e","e","n">>, <<"d","i","s","p","l","a","y">>>>,
        secondary |-> <<<<"k","e","y","b","o","a","r","d">>, <<"m","o","u","s","e">>, <<"s","p","e","a","k","e","r">>, <<"h","e","a","d","p","h","o","n","e">>, <<"e","a","r","p","h","o","n","e">>, <<"c","a","m","e","r","a">>, <<"p","r","i","n","t","e","r">>, <<"s","c","a","n","n","e","r">>, <<"r","o","u","t","e","r">>, <<"m","o","d","e","m">>>>],
       [category |-> <<"f","u","r","n","i","t","u","r","e">>,
        primary |-> <<<<"c","h","a","i","r">>, <<"d","e","s","k">>, <<"t","a","b","l","e">>, <<"s","o","f","a">>, <<"c","o","u","c","h">>, <<"b","e","d">>, <<"m","a","t","t","r","e","s","s">>>>,
        secondary |-> <<<<"c","a","b","i","n","e","t">>, <<"s","h","e","l","f">>, <<"b","o","o","k","s","h","e","l","f">>, <<"w","a","r","d","r","o","b","e">>, <<"d","r","a","w","e","r">>, <<"d","r","e","s","s","e","r">>, <<"n","i","g","h","t","s","t","a","n","d">>>>],
       [category |-> <<"o","f","f","i","c","e","_","s","u","p","p","l","i","e","s">>,
        primary |-> <<<<"p","e","n">>, <<"p","e","n","c","i","l">>, <<"p","a","p","e","r">>, <<"n","o","t","e","b","o","o","k">>, <<"s","t","a","p","l","e","r">>, <<"c","l","i","p">>>>,
        secondary |-> <<<<"f","o","l","d","e","r">>, <<"b","i","n","d","e","r">>, <<"m","a","r","k","e","r">>, <<"e","r","a","s","e","r">>, <<"t","a","p","e">>, <<"g","l","u","e">>, <<"s","c","i","s","s","o","r","s">>>>],
       [category |-> <<"f","o","o","d","_","b","e","v","e","r","a","g","e","s">>,
        primary |-> <<<<"r","i","c","e">>, <<"f","l","o","u","r">>, <<"s","u","g","a","r">>, <<"s","a","l","t">>, <<"o","i","l">>, <<"p","a","s","t","a">>, <<"c","e","r","e","a","l">>, <<"b","r","e","a","d">>>>,
        secondary |-> <<<<"m","i","l","k">>, <<"c","h","e","e","s","e">>, <<"b","u","t","t","e","r">>, <<"y","o","g","u","r","t">>, <<"j","u","i","c","e">>, <<"c","o","f","f","e","e">>, <<"t","e","a">>, <<"w","a","t","e","r">>>>],
       [category |-> <<"c","l","o","t","h","i","n","g">>,
        primary |-> <<<<"s","h","i","r","t">>, <<"p","a","n","t","s">>, <<"d","r","e","s","s">>, <<"s","h","o","e","s">>, <<"j","a","c","k","e","t">>, <<"s","w","e","a","t","e","r">>>>,
        secondary |-> <<<<"j","e","a","n","s">>, <<"s","o","c","k","s">>, <<"h","a","t">>, <<"g","l","o","v","e","s">>, <<"b","e","l","t">>, <<"t","i","e">>, <<"s","c","a","r","f">>>>],
       [category |-> <<"t","o","o","l","s","_","h","a","r","d","w","a","r","e">>,
        primary |-> <<<<"h","a","m","m","e","r">>, <<"s","c","r","e","w","d","r","i","v","e","r">>, <<"d","r","i","l","l">>, <<"s","a","w">>, <<"w","r","e","n","c","h">>, <<"p","l","i","e","r","s">>>>,
        secondary |-> <<<<"m","e","a","s","u","r","i","n","g">>, <<"l","e","v","e","l">>, <<"k","n","i","f","e">>, <<"b","l","a","d","e">>, <<"b","i","t">>, <<"n","a","i","l">>, <<"s","c","r","e","w">>, <<"b","o","l","t">>>>],
       [category |-> <<"c","l","e","a","n","i","n","g","_","h","y","g","i","e","n","e">>,
        primary |-> <<<<"d","e","t","e","r","g","e","n","t">>, <<"s","o","a","p">>, <<"c","l","e","a","n","e","r">>, <<"d","i","s","i","n","f","e","c","t","a","n","t">>, <<"b","l","e","a","c","h">>>>,
        secondary |-> <<<<"s","p","o","n","g","e">>, <<"b","r","u","s","h">>, <<"v","a","c","u","u","m">>, <<"m","o","p">>, <<"t","i","s","s","u","e">>, <<"t","o","w","e","l">>, <<"s","h","a","m","p","o","o">>, <<"t","o","o","t","h","p","a","s","t","e">>>>],
       [category |-> <<"a","u","t","o","m","o","t","i","v","e">>,
        primary |-> <<<<"t","i","r","e">>, <<"b","a","t","t","e","r","y">>, <<"o","i","l">>, <<"f","i","l","t","e","r">>, <<"b","r","a","k","e">>>>,
        secondary |-> <<<<"l","i","g","h","t">>, <<"m","i","r","r","o","r">>, <<"s","e","a","t">>, <<"e","n","g","i","n","e">>, <<"w","i","r","e">>, <<"f","l","u","i","d">>>>] >>

(***************************************************************************)
(* Regular expressions as re.sub applies them: a pattern is a tree, and    *)
(* Ends gives the positions where a match that starts at position i can    *)
(* end, in the order in which the backtracking matcher tries them.         *)
(* Positions count the characters before them, from 0 to Len(s).           *)
(***************************************************************************)
Lit(text) == [op |-> "lit", text |-> text]

AnyOf(chars) == [op |-> "set", chars |-> chars]

InOrder(args) == [op |-> "seq", args |-> args]

Alt(args) == [op |-> "alt", args |-> args]

Opt(arg) == [op |-> "opt", arg |-> arg]

Star(arg) == [op |-> "star", arg |-> arg]

Plus(arg) == [op |-> "plus", arg |-> arg]

\* \b
WordBoundary == [op |-> "b"]

\* (w1|w2|...)
Words(words) == Alt([k \in 1..Len(words) |-> Lit(words[k])])

\* \d
Digit == AnyOf({DigitChars[k] : k \in 1..Len(DigitChars)})

\* \s
Space == AnyOf({" "})

\* ["\']
Quote == AnyOf({"\"", "'"})

\* \w of a lowered ASCII string
IsWordChar(c) == IsLetter(c) \/ IsDigit(c) \/ c = "_"

\* \b holds at position i
IsBoundary(s, i) ==
    (i > 0 /\ IsWordChar(s[i])) # (i < Len(s) /\ IsWordChar(s[i + 1]))

RECURSIVE Ends(_, _, _)
RECURSIVE EndsFrom(_, _, _)
RECURSIVE SeqEnds(_, _, _)
RECURSIVE StarEnds(_, _, _)
\* the ends of the matches of node that start at one of the positions in turn
EndsFrom(node, s, starts) ==
    Flatten([k \in 1..Len(starts) |-> Ends(node, s, starts[k])])

\* the nodes one after the other
SeqEnds(args, s, starts) ==
    IF args = <<>> \/ starts = <<>> THEN starts
    ELSE SeqEnds(Tail(args), s, EndsFrom(Head(args), s, starts))

\* a greedy repetition: one more match of arg that consumes something, or none
StarAfter(arg, s, i, ends) ==
    Flatten([k \in 1..Len(ends) |-> IF ends[k] > i THEN StarEnds(arg, s, ends[k]) ELSE <<>>])
        \o <<i>>

StarEnds(arg, s, i) == StarAfter(arg, s, i, Ends(arg, s, i))

\* one match of arg, then a greedy repetition
PlusAfter(arg, s, ends) == Flatten([k \in 1..Len(ends) |-> StarEnds(arg, s, ends[k])])

Ends(node, s, i) ==
    CASE node.op = "lit" ->
            IF i + Len(node.text) <= Len(s) /\ SubSeq(s, i + 1, i + Len(node.text)) = node.text
            THEN <<i + Len(node.text)>> ELSE <<>>
      [] node.op = "set" ->
            IF i < Len(s) /\ s[i + 1] \in node.chars THEN <<i + 1>> ELSE <<>>
      [] node.op = "b" -> IF IsBoundary(s, i) THEN <<i>> ELSE <<>>
      [] node.op = "seq" -> SeqEnds(node.args, s, <<i>>)
      [] node.op = "alt" -> Flatten([k \in 1..Len(node.args) |-> Ends(node.args[k], s, i)])
      [] node.op = "opt" -> Ends(node.arg, s, i) \o <<i>>
      [] node.op = "star" -> StarEnds(node.arg, s, i)
      [] node.op = "plus" -> PlusAfter(node.arg, s, Ends(node.arg, s, i))

\* re.sub(pattern, '', s) from position i on: the leftmost match is dropped
\* and the search goes on behind it; no pattern here matches the empty string
RECURSIVE SubFrom(_, _, _)
SubStep(pattern, s, i, ends) ==
    IF ends # <<>> /\ ends[1] > i
    THEN SubFrom(pattern, s, ends[1])
    ELSE <<s[i + 1]>> \o SubFrom(pattern, s, i + 1)

SubFrom(pattern, s, i) ==
    IF i >= Len(s) THEN <<>> ELSE SubStep(pattern, s, i, Ends(pattern, s, i))

\* for pattern in patterns: normalized = re.sub(pattern, '', normalized); in an
\* empty string no pattern matches
RECURSIVE RemovePatterns(_, _)
RemovePatterns(patterns, s) ==
    IF s = <<>> \/ patterns = <<>> THEN s
    ELSE RemovePatterns(Tail(patterns), SubFrom(Head(patterns), s, 0))

\* \b\d+\.?\d*\s*(unit1|unit2|...)\b
Measure(units) ==
    InOrder(<<WordBoundary, Plus(Digit), Opt(Lit(<<".">>)), Star(Digit), Star(Space), Alt(units),
          WordBoundary>>)

size_weight_patterns ==
    << Measure(<<Lit(<<"k","g">>), Lit(<<"g">>), Lit(<<"l","b">>), Lit(<<"o","z">>), Lit(<<"p","o","u","n","d">>), Lit(<<"g","r","a","m">>),
                 Lit(<<"k","i","l","o","g","r","a","m">>), Lit(<<"t","o","n">>)>>),
       Measure(<<Lit(<<"m","l">>), Lit(<<"l">>), Lit(<<"l","i","t","e","r">>), Lit(<<"l","i","t","r","e">>),
                 InOrder(<<Lit(<<"f","l">>), Star(Space), Lit(<<"o","z">>)>>),
                 Lit(<<"g","a","l","l","o","n">>), Lit(<<"c","u","p">>), Lit(<<"p","i","n","t">>), Lit(<<"q","u","a","r","t">>)>>),
       Measure(<<Lit(<<"m","m">>), Lit(<<"c","m">>), Lit(<<"m">>), Lit(<<"m","e","t","e","r">>), Lit(<<"m","e","t","r","e">>), Lit(<<"i","n","c","h">>),
                 Lit(<<"i","n">>), Lit(<<"f","t">>), Lit(<<"f","o","o","t">>), Lit(<<"f","e","e","t">>), Lit(<<"y","a","r","d">>)>>),
       Measure(<<Lit(<<"p","a","c","k">>), Lit(<<"p","c","s">>), Lit(<<"p","i","e","c","e","s">>), Lit(<<"c","o","u","n","t">>), Lit(<<"c","t">>),
                 Lit(<<"b","o","x">>), Lit(<<"b","o","t","t","l","e">>), Lit(<<"c","a","n">>), Lit(<<"b","a","g">>)>>),
       InOrder(<<WordBoundary,
             Words(<<<<"s","m","a","l","l">>, <<"m","e","d","i","u","m">>, <<"l","a","r","g","e">>, <<"x","l">>, <<"x","x","l">>, <<"x","s">>, <<"m","i","n","i">>, <<"m","i","c","r","o">>,
                     <<"m","e","g","a">>, <<"s","u","p","e","r">>, <<"e","x","t","r","a">>>>),
             WordBoundary>>),
       InOrder(<<WordBoundary, Plus(Digit), Opt(Quote), Star(Space), Lit(<<"x">>), Star(Space),
             Plus(Digit), Opt(Quote), Star(Space), Opt(Lit(<<"x">>)), Star(Space), Star(Digit),
             Opt(Quote), WordBoundary>>),
       InOrder(<<WordBoundary, Plus(Digit), Star(Space),
             Words(<<<<"s","i","z","e">>, <<"c","o","u","n","t">>, <<"p","i","e","c","e">>>>), WordBoundary>>) >>

brand_model_patterns ==
    << InOrder(<<WordBoundary,
             Words(<<<<"a","p","p","l","e">>, <<"s","a","m","s","u","n","g">>, <<"d","e","l","l">>, <<"h","p">>, <<"l","e","n","o","v","o">>, <<"a","s","u","s">>, <<"a","c","e","r">>, <<"s","o","n","y">>,
                     <<"l","g">>, <<"c","a","n","o","n">>, <<"e","p","s","o","n">>, <<"n","i","k","e">>, <<"a","d","i","d","a","s">>, <<"m","i","c","r","o","s","o","f","t">>, <<"g","o","o","g","l","e">>,
                     <<"i","n","t","e","l">>, <<"a","m","d">>>>),
             WordBoundary>>),
       InOrder(<<WordBoundary,
             Alt(<<InOrder(<<Lit(<<"i","n","c">>), Opt(Lit(<<".">>))>>), InOrder(<<Lit(<<"c","o","r","p">>), Opt(Lit(<<".">>))>>),
                   InOrder(<<Lit(<<"l","t","d">>), Opt(Lit(<<".">>))>>), Lit(<<"l","l","c">>),
                   InOrder(<<Lit(<<"c","o">>), Opt(Lit(<<".">>))>>), Lit(<<"c","o","m","p","a","n","y">>)>>),
             WordBoundary>>),
       InOrder(<<WordBoundary, Lit(<<"m","o","d","e","l">>), Star(Space),
             Plus(AnyOf({LowerLetters[k] : k \in 1..Len(LowerLetters)}
                        \cup {DigitChars[k] : k \in 1..Len(DigitChars)} \cup {"-"})),
             WordBoundary>>),
       InOrder(<<WordBoundary, Star(AnyOf({LowerLetters[k] : k \in 1..Len(LowerLetters)})),
             Digit, Digit, Digit, Star(Digit), WordBoundary>>),
       InOrder(<<WordBoundary, Lit(<<"v">>), Plus(Digit), Opt(InOrder(<<Lit(<<".">>), Plus(Digit)>>)),
             WordBoundary>>),
       InOrder(<<WordBoundary, Words(<<<<"g","e","n">>, <<"g","e","n","e","r","a","t","i","o","n">>>>), Star(Space), Plus(Digit),
             WordBoundary>>) >>

color_patterns ==
    << InOrder(<<WordBoundary,
             Words(<<<<"r","e","d">>, <<"b","l","u","e">>, <<"g","r","e","e","n">>, <<"y","e","l","l","o","w">>, <<"o","r","a","n","g","e">>, <<"p","u","r","p","l","e">>, <<"p","i","n","k">>,
                     <<"b","l","a","c","k">>, <<"w","h","i","t","e">>, <<"g","r","e","y">>, <<"g","r","a","y">>, <<"b","r","o","w","n">>, <<"s","i","l","v","e","r">>, <<"g","o","l","d">>,
                     <<"b","r","o","n","z","e">>>>),
             WordBoundary>>),
       InOrder(<<WordBoundary, Words(<<<<"d","a","r","k">>, <<"l","i","g","h","t">>, <<"b","r","i","g","h","t">>>>), Plus(Space),
             Words(<<<<"r","e","d">>, <<"b","l","u","e">>, <<"g","r","e","e","n">>, <<"y","e","l","l","o","w">>, <<"o","r","a","n","g","e">>, <<"p","u","r","p","l","e">>, <<"p","i","n","k">>,
                     <<"b","l","a","c","k">>, <<"w","h","i","t","e">>, <<"g","r","e","y">>, <<"g","r","a","y">>, <<"b","r","o","w","n">>>>),
             WordBoundary>>) >>

\* re.sub(r'[^\w\s]', ' ', normalized)
SpecialToSpace(s) ==
    [k \in 1..Len(s) |-> IF IsWordChar(s[k]) \/ IsSpace(s[k]) THEN s[k] ELSE " "]

\* re.sub(r'\s+', ' ', normalized).strip()
CollapseSpaces(s) == JoinSp(SplitWs(s))

\* normalize_product_name of a str
normalize_product_name(product_name) ==
    CollapseSpaces(SpecialToSpace(
        RemovePatterns(size_weight_patterns,
            RemovePatterns(color_patterns,
                RemovePatterns(brand_model_patterns, Strip(Lower(product_name)))))))

\* the element of a set of one element; a value bound to an element of
\* {expression} is computed once
TheOnly(S) == CHOOSE x \in S : TRUE

\* normalized_name.split()
NormalizedWords(product_name) == SplitWs(normalize_product_name(product_name))

(***************************************************************************)
(* Scores are fractions <<numerator, denominator>>.                        *)
(***************************************************************************)
\* keyword in word or word in keyword
KeywordMatches(keyword, word) == IsSubstr(keyword, word) \/ IsSubstr(word, keyword)

\* len(keyword) / max(len(word), len(keyword)), times 0.7 for a secondary keyword
KeywordScore(keyword, word, tier) ==
    IF tier = "primary"
    THEN <<Len(keyword), Max(Len(word), Len(keyword))>>
    ELSE <<7 * Len(keyword), 10 * Max(Len(word), Len(keyword))>>

\* the matches of one keyword with the words, in the order of the words
KeywordHits(category, keyword, words, tier) ==
    [n \in 1..Len(SelectSeq(words, LAMBDA word : KeywordMatches(keyword, word))) |->
        [category |-> category,
         score |-> KeywordScore(keyword,
                                SelectSeq(words, LAMBDA word : KeywordMatches(keyword, word))[n],
                                tier)]]

\* the matches of the keywords of one tier, in the order of the loops over the
\* categories, the keywords of a category and the words
TierHits(words, tier) ==
    Flatten([c \in 1..Len(core_product_keywords) |->
        Flatten([k \in 1..Len(core_product_keywords[c][tier]) |->
            KeywordHits(core_product_keywords[c].category,
                        core_product_keywords[c][tier][k], words, tier)])])

\* a match replaces the best one also when its score is the same
LaterOfEqual(best, hit, tier) ==
    IF FracAtLeast(hit.score, best.score)
    THEN [category |-> hit.category, subcategory |-> tier, score |-> hit.score]
    ELSE best

\* if score > best_score: best_score, best_category and best_subcategory are
\* those of the match
BetterOf(best, hit, tier) ==
    IF FracGreater(hit.score, best.score)
    THEN [category |-> hit.category, subcategory |-> tier, score |-> hit.score]
    ELSE best

\* the loops over the matches of one tier
RECURSIVE BestOverHits(_, _, _)
BestOverHits(best, hits, tier) ==
    IF hits = <<>> THEN best
    ELSE BestOverHits(BetterOf(best, Head(hits), tier), Tail(hits), tier)

\* the state after the primary loop of extract_core_product_type
AfterPrimary(words) ==
    BestOverHits([category |-> <<"o","t","h","e","r">>, subcategory |-> <<"g","e","n","e","r","a","l">>, score |-> <<0, 1>>],
                 TheOnly({TierHits(words, "primary")}), <<"p","r","i","m","a","r","y">>)

\* the state after the secondary loop, entered when best_score < 0.8
AfterSecondary(words, best) ==
    IF FracAtLeast(best.score, <<4, 5>>) THEN best
    ELSE BestOverHits(best, TheOnly({TierHits(words, "secondary")}), <<"s","e","c","o","n","d","a","r","y">>)

\* meaningful_words
MeaningfulWords(words) == SelectSeq(words, LAMBDA w : Len(w) > 2)

\* the last step: a weak match is named after the first meaningful word
WithMeaningfulWord(best, meaningful_words) ==
    IF ~FracAtLeast(best.score, <<1, 2>>) /\ meaningful_words # <<>>
    THEN [best EXCEPT !.subcategory = meaningful_words[1]]
    ELSE best

\* extract_core_product_type on the words of the normalised name
CoreTypeOfWords(words) ==
    WithMeaningfulWord(
        AfterSecondary(words, AfterPrimary(words)),
        MeaningfulWords(words))

\* extract_core_product_type if it read the words of the name as it was given
ExtractFromGivenName(product_name) ==
    TheOnly({CoreTypeOfWords(words) : words \in {SplitWs(Strip(Lower(product_name)))}})

\* extract_core_product_type: [category, subcategory, score]
extract_core_product_type(product_name) ==
    TheOnly({CoreTypeOfWords(words) : words \in {NormalizedWords(product_name)}})


(***************************************************************************)
(* Similarity of two products                                              *)
(***************************************************************************)
\* the elements of a sequence as a set
SetOf(s) == {s[n] : n \in 1..Len(s)}

\* type_similarity
TypeSimilarity(type1, type2) == IF type1 = type2 /\ type1 # <<"o","t","h","e","r">> THEN 1 ELSE 0

\* word_overlap: |words1 & words2| / |words1 | words2|, 0.0 when a name has no word
WordOverlap(words1, words2) ==
    IF words1 # {} /\ words2 # {}
    THEN <<Cardinality(words1 \cap words2), Cardinality(words1 \cup words2)>>
    ELSE <<0, 1>>

\* category_similarity
CategorySimilarity(cat1, cat2) == IF cat1 = cat2 /\ cat1 # <<"u","n","k","n","o","w","n">> THEN 1 ELSE 0

\* type * 0.4 + string * 0.3 + overlap * 0.2 + category * 0.1
WeightedSimilarity(type_similarity, string_similarity, word_overlap, category_similarity) ==
    << (4 * type_similarity + category_similarity) * string_similarity[2] * word_overlap[2]
         + 3 * string_similarity[1] * word_overlap[2]
         + 2 * word_overlap[1] * string_similarity[2],
       10 * string_similarity[2] * word_overlap[2] >>

\* the four scores of two items with the normalised names norm1 and norm2
SimilarityOfNames(item1, item2, norm1, norm2) ==
    WeightedSimilarity(
        TypeSimilarity(CoreTypeOfWords(SplitWs(norm1)).category,
                       CoreTypeOfWords(SplitWs(norm2)).category),
        Ratio(norm1, norm2),
        WordOverlap(SetOf(SplitWs(norm1)), SetOf(SplitWs(norm2))),
        CategorySimilarity(Lower(item1.category), Lower(item2.category)))

\* calculate_product_similarity
calculate_product_similarity(item1, item2) ==
    TheOnly({SimilarityOfNames(item1, item2, norm[1], norm[2]) :
                norm \in {<<normalize_product_name(item1.name),
                            normalize_product_name(item2.name)>>}})

(***************************************************************************)
(* Chunked frequency analysis                                              *)
(*                                                                         *)
(* The DataFrame has the two columns main and sub, in this order: the      *)
(* name of an item is read from main (row.iloc[0]) and its price from sub  *)
(* (row.iloc[1]); row.iloc[2] and row.iloc[3] do not exist.                *)
(***************************************************************************)
\* self.chunk_size
chunk_size == 1000

\* self.sample_size_per_chunk
sample_size_per_chunk == 100

\* safe_str
safe_str(value, default) ==
    IF IsNa(value) \/ value = <<>> THEN default ELSE Strip(value)

\* row.iloc[2] if len(row) > 2 else None, through safe_str: a DataFrame of the
\* model has the columns main and sub, and may have a column third
ThirdCell(row) ==
    IF "third" \in DOMAIN row
    THEN safe_str(row.third, <<"U","n","k","n","o","w","n">>)
    ELSE <<"U","n","k","n","o","w","n">>

\* {str(k): str(v) for k, v in row.to_dict().items()} over all the columns
ChunkRowData(row) == [c \in DOMAIN row |-> Str(row[c])]

\* the item of process_chunk_data for the row with index i
ChunkItem(d, i, chunk_index) ==
    [id |-> IntToStr(i),
     name |-> safe_str(RowAt(d, i).main, <<"I","t","e","m","_">> \o IntToStr(i)),
     price |-> safe_float(RowAt(d, i).sub),
     category |-> ThirdCell(RowAt(d, i)),
     quantity |-> 1,
     row_data |-> ChunkRowData(RowAt(d, i)),
     chunk_index |-> chunk_index]

\* the ways chunk_df.sample(n=100, random_state=42) is allowed to choose: which
\* rows the seeded generator picks is not modelled, the sample is the first
\* or the last hundred rows of the chunk
SampleChoices == {"first", "last"}

\* the indices of the sampled rows of the chunk that holds rows first .. last
SampleIndex(first, last, sample) ==
    IF last - first + 1 > sample_size_per_chunk
    THEN IF sample = "first"
         THEN [n \in 1..sample_size_per_chunk |-> first + n - 1]
         ELSE [n \in 1..sample_size_per_chunk |-> last - sample_size_per_chunk + n]
    ELSE [n \in 1..(last - first + 1) |-> first + n - 1]

\* items of process_chunk_data
ChunkItems(d, index, chunk_index) ==
    [n \in 1..Len(index) |-> ChunkItem(d, index[n], chunk_index)]

\* one classified item of type_analysis
TypeEntry(item, core_type) ==
    [item |-> item,
     confidence |-> core_type.score,
     sub_type |-> core_type.subcategory,
     core_type |-> core_type.category]

\* the classified items with confidence > 0.3
ConfidentEntries(items) ==
    SelectSeq([n \in 1..Len(items) |->
                  TypeEntry(items[n], extract_core_product_type(items[n].name))],
              LAMBDA e : FracGreater(e.confidence, <<3, 10>>))

\* the entries of one type
EntriesOfType(entries, type_name) ==
    SelectSeq(entries, LAMBDA e : e.core_type = type_name)

\* a defaultdict(list) filled in the order of the entries
TypeDict(entries, type_names) ==
    [n \in 1..Len(type_names) |->
        [name |-> type_names[n], items |-> EntriesOfType(entries, type_names[n])]]

\* type_analysis
TypeAnalysis(entries) ==
    TypeDict(entries, InsertionOrder([n \in 1..Len(entries) |-> entries[n].core_type]))

\* the result of process_chunk_data without common_patterns, which
\* create_final_groups_from_analysis does not read
ChunkResult(chunk_index, items, chunk_len) ==
    [chunk_index |-> chunk_index,
     items |-> items,
     type_analysis |-> TypeAnalysis(ConfidentEntries(items)),
     total_items |-> Len(items),
     chunk_size |-> chunk_len]

\* process_chunk_data for the chunk that holds the rows first .. last
process_chunk_data(d, first, last, chunk_index, sample) ==
    ChunkResult(chunk_index,
                ChunkItems(d, SampleIndex(first, last, sample), chunk_index),
                last - first + 1)


\* the keys of a dict
KeysOf(dict) == [n \in 1..Len(dict) |-> dict[n].name]

\* the list under a key of a defaultdict(list), [] for a key it does not have
ListAt(dict, key) ==
    IF HasKey(dict, key)
    THEN dict[CHOOSE n \in 1..Len(dict) : dict[n].name = key].items
    ELSE <<>>

\* combined_type_analysis[type_name] over the chunks, in the order of the chunks
RECURSIVE CombinedItems(_, _)
CombinedItems(chunk_results, type_name) ==
    IF chunk_results = <<>> THEN <<>>
    ELSE ListAt(chunk_results[1].type_analysis, type_name)
            \o CombinedItems(Tail(chunk_results), type_name)

\* the keys of combined_type_analysis in insertion order
CombinedTypeNames(chunk_results) ==
    InsertionOrder(Flatten([c \in 1..Len(chunk_results) |->
                               KeysOf(chunk_results[c].type_analysis)]))

\* a confidence is a multiple of 1 / ConfidenceUnits for every word and keyword
\* of at most 12 characters
ConfidenceUnits == 277200

\* the confidence in units
Units(score) == (score[1] * ConfidenceUnits) \div score[2]

\* the sum of the confidences of the entries, in units
ConfidenceSum(type_items) ==
    SumSeq([n \in 1..Len(type_items) |-> Units(type_items[n].confidence)])

\* a main group candidate; avg_confidence is confidence_sum / count
Candidate(type_name, type_items) ==
    [name |-> type_name,
     items |-> type_items,
     count |-> Len(type_items),
     confidence_sum |-> ConfidenceSum(type_items)]

\* main_group_candidates if two classified items were enough for a group
CandidatesFromTwo(chunk_results, type_names) ==
    SelectSeq([n \in 1..Len(type_names) |->
                  Candidate(type_names[n], CombinedItems(chunk_results, type_names[n]))],
              LAMBDA c : c.count >= 2)

\* main_group_candidates: the types with at least 3 classified items
Candidates(chunk_results, type_names) ==
    SelectSeq([n \in 1..Len(type_names) |->
                  Candidate(type_names[n], CombinedItems(chunk_results, type_names[n]))],
              LAMBDA c : c.count >= 3)

\* (count, avg_confidence) of a is greater than that of b
KeyGreater(a, b) ==
    \/ a.count > b.count
    \/ a.count = b.count /\ a.confidence_sum > b.confidence_sum

\* the candidates left in the order of combined_type_analysis
CandidatesUnsorted(candidates) == candidates

\* sorted(..., reverse=True): greater keys first, equal keys in their old order
SortedCandidates(candidates) ==
    [r \in 1..Len(candidates) |->
        candidates[CHOOSE n \in 1..Len(candidates) :
            Cardinality({m \in 1..Len(candidates) :
                \/ KeyGreater(candidates[m], candidates[n])
                \/ m < n /\ ~KeyGreater(candidates[n], candidates[m])}) = r - 1]]

\* the merged analysis without global_patterns, which
\* create_final_groups_from_analysis does not read
MergedAnalysis(chunk_results, all_items) ==
    [all_items |-> all_items,
     main_groups |-> SortedCandidates(Candidates(chunk_results,
                                                 CombinedTypeNames(chunk_results))),
     total_items_processed |-> Len(all_items),
     total_chunks |-> Len(chunk_results)]

\* merge_chunk_analyses
merge_chunk_analyses(chunk_results) ==
    MergedAnalysis(chunk_results,
                   Flatten([c \in 1..Len(chunk_results) |-> chunk_results[c].items]))

(***************************************************************************)
(* Sub-groups by similarity to a seed                                      *)
(***************************************************************************)
\* similarity_threshold: float = 0.7
similarity_threshold == <<7, 10>>

\* similarity >= similarity_threshold
IsSimilar(seed_item, item, threshold) ==
    \E similarity \in {calculate_product_similarity(seed_item, item)} :
        FracAtLeast(similarity, threshold)

\* sub_group_items: the seed and the remaining items similar to it
SubGroupItemsAround(seed_item, remaining_items, threshold) ==
    <<seed_item>> \o SelectSeq(remaining_items, LAMBDA item : IsSimilar(seed_item, item, threshold))

\* remaining_items with the items of the sub-group left in it
RemainingWithAbsorbed(seed_item, remaining_items, threshold) == remaining_items

\* remaining_items after the items of the sub-group are removed
RemainingAfter(seed_item, remaining_items, threshold) ==
    SelectSeq(remaining_items, LAMBDA item : ~IsSimilar(seed_item, item, threshold))

\* the lists of items of the sub-groups, in the order of their seeds
RECURSIVE ClusterItems(_, _)
ClusterItems(remaining_items, threshold) ==
    IF remaining_items = <<>> THEN <<>>
    ELSE <<SubGroupItemsAround(Head(remaining_items), Tail(remaining_items), threshold)>>
            \o ClusterItems(RemainingAfter(Head(remaining_items), Tail(remaining_items), threshold),
                            threshold)

\* the words of the normalised names of the items, one list per item
NameWords(items) == [n \in 1..Len(items) |-> NormalizedWords(items[n].name)]

\* all_words as a set
AllWords(names) == UNION {SetOf(names[n]) : n \in 1..Len(names)}

\* Counter(all_words)[word]
WordCount(names, word) ==
    Cardinality({p \in UNION {{<<n, j>> : j \in 1..Len(names[n])} : n \in 1..Len(names)} :
                    names[p[1]][p[2]] = word})

\* the item whose name has the word first
FirstItemWith(names, word) ==
    MinOf({n \in 1..Len(names) : \E j \in 1..Len(names[n]) : names[n][j] = word})

\* the place of the first occurrence of the word in that name
FirstPlaceIn(name, word) == MinOf({j \in 1..Len(name) : name[j] = word})

\* word v comes before word w in Counter.most_common(): the greater count
\* first, equal counts in the order of first occurrence
MoreCommon(names, v, w) ==
    \/ WordCount(names, v) > WordCount(names, w)
    \/ /\ WordCount(names, v) = WordCount(names, w)
       /\ \/ FirstItemWith(names, v) < FirstItemWith(names, w)
          \/ /\ FirstItemWith(names, v) = FirstItemWith(names, w)
             /\ FirstPlaceIn(names[FirstItemWith(names, v)], v)
                  < FirstPlaceIn(names[FirstItemWith(names, w)], w)

\* word_counts.most_common(limit)
MostCommon(names, words, limit) ==
    [r \in 1..Min(limit, Cardinality(words)) |->
        CHOOSE w \in words :
            Cardinality({v \in words : v # w /\ MoreCommon(names, v, w)}) = r - 1]

\* common_words
CommonWords(names) ==
    SelectSeq(MostCommon(names, AllWords(names), 3),
              LAMBDA w : Len(w) > 2 /\ WordCount(names, w) > 1)

\* the name from the first item's key word, or from the number of items
FallbackSubGroupName(words, item_count) ==
    IF words # <<>> THEN Title(words[1])
    ELSE <<"G","r","o","u","p"," ">> \o IntToStr(item_count) \o <<" ","i","t","e","m","s">>

\* the name of a sub-group of two or more items
SharedSubGroupName(names, common_words) ==
    IF common_words # <<>> THEN Title(JoinSp(Take(common_words, 2)))
    ELSE FallbackSubGroupName(MeaningfulWords(names[1]), Len(names))

\* generate_sub_group_name
generate_sub_group_name(items) ==
    IF items = <<>> THEN <<"E","m","p","t","y"," ","G","r","o","u","p">>
    ELSE IF Len(items) = 1 THEN clean_group_name(items[1].name)
    ELSE TheOnly({SharedSubGroupName(names, CommonWords(names)) :
                     names \in {NameWords(items)}})

\* str(uuid.uuid4()): a fresh id, told apart by where it is made
Uuid(place, n) == <<"u","u","i","d","-">> \o place \o IntToStr(n)

\* the sub-groups dict from the clusters of main group g
ClusteredSubGroups(clusters, g) ==
    [k \in 1..Len(clusters) |->
        [key |-> Uuid(<<"g">> \o IntToStr(g) \o <<"s">>, k),
         id |-> Uuid(<<"g">> \o IntToStr(g) \o <<"s">>, k),
         name |-> generate_sub_group_name(clusters[k]),
         items |-> clusters[k]]]

\* create_sub_groups_from_items for main group g: a dict in insertion order,
\* every entry carries its key
create_sub_groups_from_items(items, threshold, g) ==
    IF Len(items) <= 3
    THEN << [key |-> <<"d","e","f","a","u","l","t">>,
             id |-> Uuid(<<"g">> \o IntToStr(g) \o <<"s">>, 1),
             name |-> <<"D","e","f","a","u","l","t">>,
             items |-> items] >>
    ELSE ClusteredSubGroups(ClusterItems(items, threshold), g)


\* str.replace('_', ' ')
ReplaceUnderscores(s) == [n \in 1..Len(s) |-> IF s[n] = "_" THEN " " ELSE s[n]]

\* the items of the entries of a candidate
EntryItems(entries) == [n \in 1..Len(entries) |-> entries[n].item]

\* one main group of the final structure, the g-th in the order of the analysis
FinalGroup(group_name, group_items, g) ==
    [key |-> Uuid(<<"g">>, g),
     id |-> Uuid(<<"g">>, g),
     name |-> Title(ReplaceUnderscores(group_name)),
     enabled |-> TRUE,
     sub_groups |-> create_sub_groups_from_items(group_items, similarity_threshold, g),
     total_items |-> Len(group_items),
     estimated_savings |-> calculate_estimated_savings(group_items)]

\* main_groups: a dict in insertion order, every entry carries its key
FinalGroups(candidates) ==
    [g \in 1..Len(candidates) |->
        FinalGroup(candidates[g].name, EntryItems(candidates[g].items), g)]

\* grouped_item_ids filled from the first main group only
GroupedItemIdsOfFirst(candidates) ==
    IF candidates = <<>> THEN {}
    ELSE {candidates[1].items[n].item.id : n \in 1..Len(candidates[1].items)}

\* grouped_item_ids
GroupedItemIds(candidates) ==
    UNION { {candidates[g].items[n].item.id : n \in 1..Len(candidates[g].items)} :
              g \in 1..Len(candidates) }

\* every item is listed as ungrouped, also the items of the groups
ItemsNotInKeepingAll(all_items, grouped_item_ids) == all_items

\* the items that did not fit into any group
ItemsNotIn(all_items, grouped_item_ids) ==
    SelectSeq(all_items, LAMBDA item : item.id \notin grouped_item_ids)

\* the final structure; created_at is left out
FinalStructure(main_groups, ungrouped_items, merged_analysis) ==
    [kind |-> "groups_data",
     main_groups |-> main_groups,
     ungrouped_items |-> ungrouped_items,
     metadata |-> [total_items |-> merged_analysis.total_items_processed,
                   total_groups |-> Len(main_groups),
                   total_chunks_processed |-> merged_analysis.total_chunks,
                   grouping_method |-> "chunked_intelligent_analysis"]]

\* create_final_groups_from_analysis
create_final_groups_from_analysis(merged_analysis) ==
    FinalStructure(FinalGroups(merged_analysis.main_groups),
                   ItemsNotIn(merged_analysis.all_items,
                              GroupedItemIds(merged_analysis.main_groups)),
                   merged_analysis)

\* total_chunks
TotalChunks(rows) == (rows + chunk_size - 1) \div chunk_size

\* chunk_results: one result per chunk of chunk_size rows
ChunkResults(d, sample) ==
    [c \in 1..TotalChunks(Len(d)) |->
        process_chunk_data(d, (c - 1) * chunk_size,
                           Min(c * chunk_size, Len(d)) - 1, c - 1, sample)]

\* what a call that raises returns to its caller
Raises(error) == [kind |-> "raises", error |-> error]

\* generate_intelligent_groups
generate_intelligent_groups(d, sample) ==
    IF d = <<>> THEN Raises("DataFrame is empty or None")
    ELSE create_final_groups_from_analysis(merge_chunk_analyses(ChunkResults(d, sample)))

(***************************************************************************)
(* Specification of the chunked analysis: one call on one DataFrame        *)
(***************************************************************************)
ProductNames == {NaN, <<"l","a","p","t","o","p">>, <<"R","e","d"," ","L","a","p","t","o","p">>, <<"p","h","o","n","e">>, <<"d","e","s","k">>, <<"z","z","z">>}

PriceCells == {NaN, <<"7">>}

ProductRows == [main : ProductNames, sub : PriceCells]

\* the rows of the DataFrames with three rows or more
GroupableRows == [main : {<<"l","a","p","t","o","p">>, <<"R","e","d"," ","L","a","p","t","o","p">>, <<"p","h","o","n","e">>, <<"d","e","s","k">>}, sub : {NaN}]

\* the rows of the DataFrames that are longer than the sample of a chunk
LongRows == [main : {<<"l","a","p","t","o","p">>, <<"p","h","o","n","e">>, <<"z","z","z">>}, sub : {NaN}]

\* rows in the shortest DataFrames
MaxShort == 2

\* rows in the DataFrames that can form a main group with clustered sub-groups
MaxGroupable == 4

\* DataFrames of a chunk with one row more than the sample, and of one chunk
\* and one row
LongLengths == {sample_size_per_chunk + 1, chunk_size + 1}

\* the test DataFrame of GET /api/debug/test-grouping
TestGroupingData ==
    <<[main |-> <<"A","p","p","l","e"," ","i","P","h","o","n","e">>, sub |-> <<"9","9","9">>, third |-> <<"E","l","e","c","t","r","o","n","i","c","s">>],
      [main |-> <<"S","a","m","s","u","n","g"," ","P","h","o","n","e">>, sub |-> <<"8","9","9">>, third |-> <<"E","l","e","c","t","r","o","n","i","c","s">>],
      [main |-> <<"O","f","f","i","c","e"," ","C","h","a","i","r">>, sub |-> <<"2","9","9">>, third |-> <<"F","u","r","n","i","t","u","r","e">>],
      [main |-> <<"D","e","s","k"," ","L","a","m","p">>, sub |-> <<"4","9">>, third |-> <<"F","u","r","n","i","t","u","r","e">>],
      [main |-> <<"R","i","c","e"," ","1","k","g">>, sub |-> <<"5">>, third |-> <<"F","o","o","d">>]>>

\* the same five products with the longer names of the scenario
ScenarioData ==
    <<[main |-> <<"A","p","p","l","e"," ","i","P","h","o","n","e"," ","1","4"," ","1","2","8","G","B"," ","B","l","a","c","k">>, sub |-> <<"9","9","9">>, third |-> <<"E","l","e","c","t","r","o","n","i","c","s">>],
      [main |-> <<"S","a","m","s","u","n","g"," ","P","h","o","n","e"," ","S","2","3">>, sub |-> <<"8","9","9">>, third |-> <<"E","l","e","c","t","r","o","n","i","c","s">>],
      [main |-> <<"O","f","f","i","c","e"," ","C","h","a","i","r"," ","B","l","u","e">>, sub |-> <<"2","9","9">>, third |-> <<"F","u","r","n","i","t","u","r","e">>],
      [main |-> <<"D","e","s","k"," ","L","a","m","p">>, sub |-> <<"4","9">>, third |-> <<"F","u","r","n","i","t","u","r","e">>],
      [main |-> <<"R","i","c","e"," ","1","k","g">>, sub |-> <<"5">>, third |-> <<"F","o","o","d">>]>>

ScenarioDatasets == {TestGroupingData, ScenarioData}

\* the rows of the DataFrames with two core types: 'laptop' is electronics with
\* confidence 1.0, 'desks' is furniture with 0.8
TwoTypeRows == [main : {<<"l","a","p","t","o","p">>, <<"d","e","s","k","s">>}, sub : {NaN}]

\* rows in the longest DataFrames with two core types; the shortest have 6
MaxTwoType == 7

\* the rows of the DataFrames with an item at the confidence limit:
\* 'bedchamber' is furniture with confidence 0.3
LimitRows == [main : {<<"d","e","s","k">>, <<"b","e","d","c","h","a","m","b","e","r">>}, sub : {NaN}]

\* rows in the DataFrames with an item at the confidence limit
LimitLength == 4

ProductDatasets ==
    UNION { [1..n -> ProductRows] : n \in 0..MaxShort }
    \cup ScenarioDatasets
    \cup UNION { [1..n -> GroupableRows] : n \in 3..MaxGroupable }
    \cup UNION { [1..n -> TwoTypeRows] : n \in 6..MaxTwoType }
    \cup [1..LimitLength -> LimitRows]
    \cup { [n \in 1..len |-> IF n % 2 = 1 THEN a ELSE b] :
             a \in LongRows, b \in LongRows, len \in LongLengths }

InitChunked ==
    /\ df \in ProductDatasets
    /\ request = NoRequest
    /\ result = NoResult
    /\ ValidatorIdle
    /\ OracleIdle
    /\ ManageIdle

\* POST /api/group-management/generate: generate_intelligent_groups(df)
GenerateIntelligentGroups ==
    /\ request = NoRequest
    /\ \E sample \in SampleChoices :
         /\ request' = [op |-> "generate_intelligent_groups", sample |-> sample]
         /\ result' = generate_intelligent_groups(df, sample)
    /\ UNCHANGED <<df, validatorVars, manageVars, oracleVars>>

NextChunked == GenerateIntelligentGroups

SpecChunked == InitChunked /\ [][NextChunked]_vars

\* the number of items in all sub-groups of all main groups of a dict
ItemsInSubGroups(main_groups) ==
    SumSeq([g \in 1..Len(main_groups) |->
        SumSeq([k \in 1..Len(main_groups[g].sub_groups) |->
            Len(main_groups[g].sub_groups[k].items)])])

\* the rows of a DataFrame of the given length that are sampled: every full
\* chunk gives sample_size_per_chunk rows, the last chunk its rows up to that
SampledRows(rows) ==
    (rows \div chunk_size) * Min(chunk_size, sample_size_per_chunk)
        + Min(rows % chunk_size, sample_size_per_chunk)

\* the DataFrame has a chunk with more rows than the sample
HasLongChunk(rows) == Min(rows, chunk_size) > sample_size_per_chunk

ChunkedDone == request # NoRequest /\ request.op = "generate_intelligent_groups"

\* C2 as stated: after generate_intelligent_groups on a non-empty DataFrame the
\* items in all sub-groups of all main groups plus the ungrouped items are as
\* many as the input rows, also when a chunk has more rows than the sample cap.
C2_ChunkedCoverage ==
    ChunkedDone /\ df # <<>> =>
        /\ result.kind = "groups_data"
        /\ ItemsInSubGroups(result.main_groups) + Len(result.ungrouped_items) = Len(df)

\* C2 amended: the items in all sub-groups plus the ungrouped items are as many
\* as the sampled rows, at most sample_size_per_chunk from every chunk; that is
\* the number of input rows exactly when no chunk has more rows than the cap,
\* and fewer otherwise.
C2_SampledCoverage ==
    ChunkedDone /\ df # <<>> =>
        /\ result.kind = "groups_data"
        /\ ItemsInSubGroups(result.main_groups) + Len(result.ungrouped_items)
             = SampledRows(Len(df))
        /\ (HasLongChunk(Len(df)) <=>
               ItemsInSubGroups(result.main_groups) + Len(result.ungrouped_items) < Len(df))

\* a call on a DataFrame with a chunk over the cap has returned main groups
C2_Witness ==
    /\ ChunkedDone
    /\ HasLongChunk(Len(df))
    /\ result.kind = "groups_data"
    /\ result.main_groups # <<>>
    /\ result.ungrouped_items # <<>>


(***************************************************************************)
(* Group management: POST /api/group-management/update/{file_id}           *)
(*                                                                         *)
(* The stored groups_data is in the legacy format: main_groups and the     *)
(* sub_groups of a main group are dicts, here sequences of entries in      *)
(* insertion order, every entry carrying its key.  The handler reads the   *)
(* document, changes its own copy and saves it as its last step, so a      *)
(* request that raises leaves the stored document as it was.               *)
(***************************************************************************)
\* update_request.data is None
NoData == [is_none |-> TRUE]

\* an id that is None in the request
NoneId == <<None>>

\* data.get(key, default)
DataGet(data, key, default) == IF key \in DOMAIN data THEN data[key] ELSE default

\* key in dict
HasEntry(dict, key) == \E n \in 1..Len(dict) : dict[n].key = key

\* the place of a key in a dict
EntryPos(dict, key) == CHOOSE n \in 1..Len(dict) : dict[n].key = key

\* del s[i], s.pop(i)
RemoveAt(s, i) == SubSeq(s, 1, i - 1) \o SubSeq(s, i + 1, Len(s))

\* sg_data.get("is_ungrouped_subgroup", False)
IsUngroupedSubGroup(sub_group) == GetField(sub_group, "is_ungrouped_subgroup", FALSE)

\* does the list have an item with the id
HasItem(items, item_id) == \E i \in 1..Len(items) : items[i].id = item_id

\* the place of the first item with the id
FirstItemPos(items, item_id) == MinOf({i \in 1..Len(items) : items[i].id = item_id})

\* the items of all sub-groups of a main group of the legacy format
LegacyGroupItems(group) ==
    Flatten([k \in 1..Len(group.sub_groups) |-> group.sub_groups[k].items])

\* does the main group have an "Ungrouped Items" sub-group
HasUngroupedSubGroup(group) ==
    \E k \in 1..Len(group.sub_groups) : IsUngroupedSubGroup(group.sub_groups[k])

\* the first sub-group flagged is_ungrouped_subgroup
UngroupedSubGroupPos(group) ==
    MinOf({k \in 1..Len(group.sub_groups) : IsUngroupedSubGroup(group.sub_groups[k])})

\* the "Ungrouped Items" sub-group that is created when a main group has none
NewUngroupedSubGroup(ungrouped_sg_id) ==
    [key |-> ungrouped_sg_id,
     id |-> ungrouped_sg_id,
     name |-> <<"U","n","g","r","o","u","p","e","d"," ","I","t","e","m","s">>,
     items |-> <<>>,
     is_ungrouped_subgroup |-> TRUE]

\* find or create the ungrouped sub-group of a main group
FindOrCreateUngrouped(group, ungrouped_sg_id) ==
    IF HasUngroupedSubGroup(group) THEN group
    ELSE [group EXCEPT !.sub_groups = Append(@, NewUngroupedSubGroup(ungrouped_sg_id))]

\* items added at the end of the sub-group at place k
ExtendSubGroup(group, k, items) ==
    [group EXCEPT !.sub_groups[k].items = @ \o items]

\* ungrouped_sub_group["items"].extend(items) after find or create
ExtendUngrouped(group, items) == ExtendSubGroup(group, UngroupedSubGroupPos(group), items)

\* items moved to the ungrouped sub-group of a main group
MoveToUngroupedSubGroup(group, items, ungrouped_sg_id) ==
    ExtendUngrouped(FindOrCreateUngrouped(group, ungrouped_sg_id), items)

\* the main group of add_main_group
NewMainGroup(group_id, group_name, default_id) ==
    [key |-> group_id,
     id |-> group_id,
     name |-> group_name,
     enabled |-> TRUE,
     sub_groups |-> << [key |-> <<"d","e","f","a","u","l","t">>, id |-> default_id,
                        name |-> <<"D","e","f","a","u","l","t">>, items |-> <<>>] >>,
     total_items |-> 0,
     estimated_savings |-> <<"0","%">>]

\* action == "add_main_group"; data.get raises when data is None
add_main_group(doc, req, n) ==
    IF req.data.is_none THEN Raises("AttributeError")
    ELSE [doc EXCEPT !.main_groups =
            Append(@, NewMainGroup(
                Uuid(<<"u">>, 2 * n + 1),
                DataGet(req.data, "name",
                        <<"N","e","w"," ","G","r","o","u","p"," ">> \o IntToStr(Len(doc.main_groups) + 1)),
                Uuid(<<"u">>, 2 * n + 2)))]

\* action == "delete_main_group": the items go to ungrouped_items
delete_main_group(doc, req) ==
    IF HasEntry(doc.main_groups, req.group_id)
    THEN [doc EXCEPT
            !.ungrouped_items =
                @ \o LegacyGroupItems(doc.main_groups[EntryPos(doc.main_groups, req.group_id)]),
            !.main_groups = RemoveAt(@, EntryPos(doc.main_groups, req.group_id))]
    ELSE doc

\* the sub-group of add_sub_group
NewSubGroup(sub_group_id, sub_group_name) ==
    [key |-> sub_group_id, id |-> sub_group_id, name |-> sub_group_name, items |-> <<>>]

\* a sub-group added to the main group at place g
AddSubGroupTo(doc, g, data, n) ==
    IF data.is_none THEN Raises("AttributeError")
    ELSE [doc EXCEPT !.main_groups[g].sub_groups =
            Append(@, NewSubGroup(
                Uuid(<<"u">>, 2 * n + 1),
                DataGet(data, "name",
                        <<"S","u","b"," ","G","r","o","u","p"," ">> \o IntToStr(Len(doc.main_groups[g].sub_groups) + 1))))]

\* action == "add_sub_group"
add_sub_group(doc, req, n) ==
    IF HasEntry(doc.main_groups, req.group_id)
    THEN AddSubGroupTo(doc, EntryPos(doc.main_groups, req.group_id), req.data, n)
    ELSE doc

\* del main_group["sub_groups"][sub_group_id]
DropSubGroup(group, k) == [group EXCEPT !.sub_groups = RemoveAt(@, k)]

\* the sub-group at place k of a main group is deleted: its items go to
\* ungrouped_items when it is the "Ungrouped Items" sub-group, and to the
\* "Ungrouped Items" sub-group of the main group otherwise
DeleteSubGroupAt(doc, g, k, n) ==
    IF IsUngroupedSubGroup(doc.main_groups[g].sub_groups[k])
    THEN [doc EXCEPT
            !.ungrouped_items = @ \o doc.main_groups[g].sub_groups[k].items,
            !.main_groups[g].sub_groups = RemoveAt(@, k)]
    ELSE [doc EXCEPT !.main_groups[g] =
            DropSubGroup(MoveToUngroupedSubGroup(@, @.sub_groups[k].items,
                                                 Uuid(<<"u">>, 2 * n + 1)), k)]

\* action == "delete_sub_group"
delete_sub_group(doc, req, n) ==
    IF /\ HasEntry(doc.main_groups, req.group_id)
       /\ HasEntry(doc.main_groups[EntryPos(doc.main_groups, req.group_id)].sub_groups,
                   req.sub_group_id)
    THEN DeleteSubGroupAt(doc, EntryPos(doc.main_groups, req.group_id),
            EntryPos(doc.main_groups[EntryPos(doc.main_groups, req.group_id)].sub_groups,
                     req.sub_group_id), n)
    ELSE doc


\* the first main group that has the item in one of its sub-groups
FirstGroupWithItem(main_groups, item_id) ==
    MinOf({g \in 1..Len(main_groups) : HasItem(LegacyGroupItems(main_groups[g]), item_id)})

\* the first sub-group of the main group that has the item
FirstSubGroupWithItem(group, item_id) ==
    MinOf({k \in 1..Len(group.sub_groups) : HasItem(group.sub_groups[k].items, item_id)})

\* is the item found where move_item looks for it: in ungrouped_items when
\* group_id is "ungrouped", in the sub-groups of all main groups otherwise
ItemFound(doc, req) ==
    IF req.group_id = <<"u","n","g","r","o","u","p","e","d">>
    THEN HasItem(doc.ungrouped_items, req.item_id)
    ELSE \E g \in 1..Len(doc.main_groups) :
            HasItem(LegacyGroupItems(doc.main_groups[g]), req.item_id)

\* the item popped from the sub-group at place k of the main group at place g
PoppedFromSubGroup(doc, g, k, item_id) ==
    [doc |-> [doc EXCEPT !.main_groups[g].sub_groups[k].items =
                            RemoveAt(@, FirstItemPos(@, item_id))],
     item_to_move |->
         doc.main_groups[g].sub_groups[k].items[
             FirstItemPos(doc.main_groups[g].sub_groups[k].items, item_id)],
     source_group_id |-> doc.main_groups[g].key]

\* the item popped from the main group at place g
PoppedFromGroup(doc, g, item_id) ==
    PoppedFromSubGroup(doc, g, FirstSubGroupWithItem(doc.main_groups[g], item_id), item_id)

\* find and remove item from source
PoppedItem(doc, req) ==
    IF req.group_id = <<"u","n","g","r","o","u","p","e","d">>
    THEN [doc |-> [doc EXCEPT !.ungrouped_items = RemoveAt(@, FirstItemPos(@, req.item_id))],
          item_to_move |-> doc.ungrouped_items[FirstItemPos(doc.ungrouped_items, req.item_id)],
          source_group_id |-> NoneId]
    ELSE PoppedFromGroup(doc, FirstGroupWithItem(doc.main_groups, req.item_id), req.item_id)

\* the item goes to the "Ungrouped Items" sub-group of target_main_group_id,
\* and nowhere when that is None or not a main group
AddToMainGroupUngrouped(doc, item_to_move, target_main_group_id, n) ==
    IF target_main_group_id # NoneId /\ HasEntry(doc.main_groups, target_main_group_id)
    THEN [doc EXCEPT !.main_groups[EntryPos(doc.main_groups, target_main_group_id)] =
            MoveToUngroupedSubGroup(@, <<item_to_move>>, Uuid(<<"u">>, 2 * n + 1))]
    ELSE doc

\* a or b of two ids
IdOr(a, b) == IF a # NoneId /\ a # <<>> THEN a ELSE b

\* the item goes to target_sub_group of target_group_id, and nowhere when the
\* main group or the sub-group does not exist
AddToSubGroup(doc, item_to_move, target_group_id, target_sub_group) ==
    IF /\ HasEntry(doc.main_groups, target_group_id)
       /\ HasEntry(doc.main_groups[EntryPos(doc.main_groups, target_group_id)].sub_groups,
                   target_sub_group)
    THEN [doc EXCEPT
            !.main_groups[EntryPos(doc.main_groups, target_group_id)] =
                ExtendSubGroup(@, EntryPos(@.sub_groups, target_sub_group), <<item_to_move>>)]
    ELSE doc

\* add item to target
AddToTarget(popped, req, n) ==
    IF req.target_group_id = <<"u","n","g","r","o","u","p","e","d">>
    THEN [popped.doc EXCEPT !.ungrouped_items = Append(@, popped.item_to_move)]
    ELSE IF req.target_group_id = <<"m","a","i","n","_","g","r","o","u","p","_","u","n","g","r","o","u","p","e","d">>
    THEN IF req.data.is_none THEN Raises("AttributeError")
         ELSE AddToMainGroupUngrouped(popped.doc, popped.item_to_move,
                  IdOr(DataGet(req.data, "main_group_id", NoneId), popped.source_group_id), n)
    ELSE AddToSubGroup(popped.doc, popped.item_to_move, req.target_group_id,
                       IdOr(req.target_sub_group_id, <<"d","e","f","a","u","l","t">>))

\* action == "move_item"
move_item(doc, req, n) ==
    IF ItemFound(doc, req) THEN AddToTarget(PoppedItem(doc, req), req, n) ELSE doc

\* the item at place i of the sub-group at place k goes to the "Ungrouped
\* Items" sub-group of its main group
RemoveFromSubGroupAt(group, k, i, n) ==
    MoveToUngroupedSubGroup(
        [group EXCEPT !.sub_groups[k].items = RemoveAt(@, i)],
        <<group.sub_groups[k].items[i]>>,
        Uuid(<<"u">>, 2 * n + 1))

\* remove_from_sub_group on the sub-group at place k of the main group at place g
RemoveFromSubGroupOf(doc, g, k, item_id, n) ==
    IF HasItem(doc.main_groups[g].sub_groups[k].items, item_id)
    THEN [doc EXCEPT !.main_groups[g] =
            RemoveFromSubGroupAt(@, k, FirstItemPos(@.sub_groups[k].items, item_id), n)]
    ELSE doc

\* action == "remove_from_sub_group"
remove_from_sub_group(doc, req, n) ==
    IF /\ HasEntry(doc.main_groups, req.group_id)
       /\ HasEntry(doc.main_groups[EntryPos(doc.main_groups, req.group_id)].sub_groups,
                   req.sub_group_id)
    THEN RemoveFromSubGroupOf(doc, EntryPos(doc.main_groups, req.group_id),
            EntryPos(doc.main_groups[EntryPos(doc.main_groups, req.group_id)].sub_groups,
                     req.sub_group_id),
            req.item_id, n)
    ELSE doc

\* the ungrouped items and the items to move after the ids item_ids[i..] are
\* looked up one after the other
RECURSIVE TakeFromUngrouped(_, _, _, _)
TakeFromUngrouped(ungrouped_items, items_to_move, item_ids, i) ==
    IF i > Len(item_ids)
    THEN [ungrouped_items |-> ungrouped_items, items_to_move |-> items_to_move]
    ELSE IF HasItem(ungrouped_items, item_ids[i])
    THEN TakeFromUngrouped(
            RemoveAt(ungrouped_items, FirstItemPos(ungrouped_items, item_ids[i])),
            Append(items_to_move, ungrouped_items[FirstItemPos(ungrouped_items, item_ids[i])]),
            item_ids, i + 1)
    ELSE TakeFromUngrouped(ungrouped_items, items_to_move, item_ids, i + 1)

\* the taken items are added to the sub-group at place k of the main group at place g
MoveTaken(doc, g, k, taken) ==
    [doc EXCEPT !.ungrouped_items = taken.ungrouped_items,
                !.main_groups[g] = ExtendSubGroup(@, k, taken.items_to_move)]

\* move_multiple_items with the target sub-group target_sub_group_id
MoveMultipleTo(doc, item_ids, target_group_id, target_sub_group_id) ==
    IF /\ target_group_id # NoneId
       /\ HasEntry(doc.main_groups, target_group_id)
       /\ HasEntry(doc.main_groups[EntryPos(doc.main_groups, target_group_id)].sub_groups,
                   target_sub_group_id)
    THEN MoveTaken(doc, EntryPos(doc.main_groups, target_group_id),
            EntryPos(doc.main_groups[EntryPos(doc.main_groups, target_group_id)].sub_groups,
                     target_sub_group_id),
            TakeFromUngrouped(doc.ungrouped_items, <<>>, item_ids, 1))
    ELSE doc

\* action == "move_multiple_items"
move_multiple_items(doc, req) ==
    IF req.data.is_none THEN Raises("AttributeError")
    ELSE MoveMultipleTo(doc, DataGet(req.data, "item_ids", <<>>), req.target_group_id,
                        IdOr(req.target_sub_group_id, <<"d","e","f","a","u","l","t">>))

\* action == "toggle_group"
toggle_group(doc, req) ==
    IF HasEntry(doc.main_groups, req.group_id)
    THEN [doc EXCEPT !.main_groups[EntryPos(doc.main_groups, req.group_id)].enabled = ~@]
    ELSE doc

\* the new name of a rename; an empty name changes nothing
RenamedTo(entry, data) ==
    IF DataGet(data, "name", <<>>) # <<>>
    THEN [entry EXCEPT !.name = DataGet(data, "name", <<>>)]
    ELSE entry

\* action == "update_group_name"
update_group_name(doc, req) ==
    IF HasEntry(doc.main_groups, req.group_id)
    THEN IF req.data.is_none THEN Raises("AttributeError")
         ELSE [doc EXCEPT !.main_groups[EntryPos(doc.main_groups, req.group_id)] =
                  RenamedTo(@, req.data)]
    ELSE doc

\* action == "update_sub_group_name"
update_sub_group_name(doc, req) ==
    IF /\ HasEntry(doc.main_groups, req.group_id)
       /\ HasEntry(doc.main_groups[EntryPos(doc.main_groups, req.group_id)].sub_groups,
                   req.sub_group_id)
    THEN IF req.data.is_none THEN Raises("AttributeError")
         ELSE [doc EXCEPT
                 !.main_groups[EntryPos(doc.main_groups, req.group_id)] =
                     [@ EXCEPT !.sub_groups[EntryPos(@.sub_groups, req.sub_group_id)] =
                                  RenamedTo(@, req.data)]]
    ELSE doc


\* what the handler does for the action of the request; an action it does
\* not know changes nothing
ApplyAction(doc, req, n) ==
    CASE req.action = "add_main_group" -> add_main_group(doc, req, n)
      [] req.action = "delete_main_group" -> delete_main_group(doc, req)
      [] req.action = "add_sub_group" -> add_sub_group(doc, req, n)
      [] req.action = "delete_sub_group" -> delete_sub_group(doc, req, n)
      [] req.action = "move_item" -> move_item(doc, req, n)
      [] req.action = "remove_from_sub_group" -> remove_from_sub_group(doc, req, n)
      [] req.action = "move_multiple_items" -> move_multiple_items(doc, req)
      [] req.action = "toggle_group" -> toggle_group(doc, req)
      [] req.action = "update_group_name" -> update_group_name(doc, req)
      [] req.action = "update_sub_group_name" -> update_sub_group_name(doc, req)
      [] OTHER -> doc

\* recalculate statistics of a main group
RecalculatedGroup(group) ==
    [group EXCEPT !.total_items = Len(LegacyGroupItems(group)),
                  !.estimated_savings = calculate_estimated_savings(LegacyGroupItems(group))]

\* the statistics left as the action found them
NotRecalculated(doc) == doc

\* recalculate statistics
Recalculated(doc) ==
    [doc EXCEPT !.main_groups = [g \in 1..Len(@) |-> RecalculatedGroup(@[g])]]

\* update metadata; last_updated is left out
UpdatedMetadata(doc) ==
    [doc EXCEPT !.metadata =
        SetField(SetField(@, "total_groups", Len(doc.main_groups)),
                 "total_ungrouped", Len(doc.ungrouped_items))]

IsRaised(outcome) == "kind" \in DOMAIN outcome /\ outcome.kind = "raises"

\* the end of the handler: statistics, metadata and update_one; a document
\* without metadata raises KeyError before it is saved
SaveUpdated(changed) ==
    IF IsRaised(changed) THEN changed
    ELSE IF "metadata" \notin DOMAIN changed THEN Raises("KeyError")
    ELSE [kind |-> "saved", groups_data |-> UpdatedMetadata(Recalculated(changed))]

\* update_group_management on the stored document, as the n-th request
update_group_management(doc, req, n) ==
    IF doc = NoDocument THEN Raises("404")
    ELSE SaveUpdated(ApplyAction(doc, req, n))

(***************************************************************************)
(* Specification of group management: the document of an uploaded file     *)
(* and a bounded number of update requests                                 *)
(***************************************************************************)
\* update requests on one document
MaxUpdates == 2

\* the document stored for the result of generate_intelligent_groups
StoredDocument(final_groups) ==
    [main_groups |-> final_groups.main_groups,
     ungrouped_items |-> final_groups.ungrouped_items,
     metadata |-> final_groups.metadata]

ManagedRow(name) == [main |-> name, sub |-> NaN]

\* the uploaded files: one main group with a default sub-group, one with two
\* clustered sub-groups, one with an ungrouped item, and no main group
ManagedDatasets ==
    { [n \in 1..3 |-> ManagedRow(<<"l","a","p","t","o","p">>)],
      << ManagedRow(<<"l","a","p","t","o","p">>), ManagedRow(<<"p","h","o","n","e">>),
         ManagedRow(<<"l","a","p","t","o","p">>), ManagedRow(<<"l","a","p","t","o","p">>) >>,
      << ManagedRow(<<"l","a","p","t","o","p">>), ManagedRow(<<"l","a","p","t","o","p">>),
         ManagedRow(<<"l","a","p","t","o","p">>), ManagedRow(<<"z","z","z">>) >>,
      << ManagedRow(<<"z","z","z">>) >> }

InitManage ==
    /\ df \in ManagedDatasets
    /\ groups_data = StoredDocument(generate_intelligent_groups(df, "first"))
    /\ updates = 0
    /\ request = NoRequest
    /\ result = NoResult
    /\ ValidatorIdle
    /\ OracleIdle

\* an id that names nothing in the document
MissingId == <<"m","i","s","s","i","n","g">>

GroupIds == {groups_data.main_groups[g].key : g \in 1..Len(groups_data.main_groups)}

SubGroupIds ==
    UNION { {groups_data.main_groups[g].sub_groups[k].key :
                k \in 1..Len(groups_data.main_groups[g].sub_groups)} :
            g \in 1..Len(groups_data.main_groups) }

\* the ids of the items of the uploaded file
ItemIds == {IntToStr(i - 1) : i \in 1..Len(df)}

UngroupedIds ==
    {groups_data.ungrouped_items[i].id : i \in 1..Len(groups_data.ungrouped_items)}

EmptyData == [is_none |-> FALSE]

\* data of a request that names something
NameData ==
    {NoData, EmptyData,
     [is_none |-> FALSE, name |-> <<"R","e","n","a","m","e","d">>],
     [is_none |-> FALSE, name |-> <<>>]}

\* data of move_item to "main_group_ungrouped"
MainGroupData ==
    {NoData, EmptyData}
    \cup {[is_none |-> FALSE, main_group_id |-> id] : id \in GroupIds \cup {MissingId}}

\* data of move_multiple_items
ItemIdsData ==
    {NoData, EmptyData}
    \cup {[is_none |-> FALSE, item_ids |-> <<a>>] : a \in UngroupedIds \cup {MissingId}}
    \cup {[is_none |-> FALSE, item_ids |-> <<a, b>>] : a \in UngroupedIds, b \in UngroupedIds}

\* a request with every optional field left out
BaseRequest(action) ==
    [action |-> action,
     group_id |-> NoneId,
     sub_group_id |-> NoneId,
     item_id |-> NoneId,
     target_group_id |-> NoneId,
     target_sub_group_id |-> NoneId,
     data |-> NoData]

\* the response and the stored document after the handler
Respond(outcome) ==
    /\ groups_data' = IF outcome.kind = "saved" THEN outcome.groups_data ELSE groups_data
    /\ result' = [kind |-> outcome.kind]
    /\ updates' = updates + 1

\* one request to the endpoint
Handle(req) ==
    /\ updates < MaxUpdates
    /\ request' = req
    /\ Respond(update_group_management(groups_data, req, updates))
    /\ UNCHANGED <<df, validatorVars, oracleVars>>

AddMainGroup ==
    /\ groups_data # NoDocument
    /\ \E data \in NameData :
           Handle([BaseRequest("add_main_group") EXCEPT !.data = data])

DeleteMainGroup ==
    \E group_id \in GroupIds \cup {MissingId} :
        Handle([BaseRequest("delete_main_group") EXCEPT !.group_id = group_id])

AddSubGroup ==
    \E group_id \in GroupIds \cup {MissingId}, data \in NameData :
        Handle([BaseRequest("add_sub_group") EXCEPT !.group_id = group_id, !.data = data])

DeleteSubGroup ==
    \E group_id \in GroupIds \cup {MissingId}, sub_group_id \in SubGroupIds \cup {MissingId} :
        Handle([BaseRequest("delete_sub_group") EXCEPT
                   !.group_id = group_id, !.sub_group_id = sub_group_id])

\* move_item to ungrouped_items
MoveItemToUngrouped ==
    \E group_id \in GroupIds \cup {<<"u","n","g","r","o","u","p","e","d">>}, item_id \in ItemIds \cup {MissingId} :
        Handle([BaseRequest("move_item") EXCEPT
                   !.group_id = group_id, !.item_id = item_id,
                   !.target_group_id = <<"u","n","g","r","o","u","p","e","d">>])

\* move_item to the "Ungrouped Items" sub-group of a main group
MoveItemToMainGroupUngrouped ==
    \E group_id \in GroupIds \cup {<<"u","n","g","r","o","u","p","e","d">>}, item_id \in ItemIds \cup {MissingId},
       data \in MainGroupData :
        Handle([BaseRequest("move_item") EXCEPT
                   !.group_id = group_id, !.item_id = item_id,
                   !.target_group_id = <<"m","a","i","n","_","g","r","o","u","p","_","u","n","g","r","o","u","p","e","d">>, !.data = data])

\* move_item to a sub-group of a main group
MoveItemToSubGroup ==
    \E group_id \in GroupIds \cup {<<"u","n","g","r","o","u","p","e","d">>}, item_id \in ItemIds \cup {MissingId},
       target_group_id \in GroupIds \cup {MissingId, NoneId},
       target_sub_group_id \in SubGroupIds \cup {MissingId, NoneId} :
        Handle([BaseRequest("move_item") EXCEPT
                   !.group_id = group_id, !.item_id = item_id,
                   !.target_group_id = target_group_id,
                   !.target_sub_group_id = target_sub_group_id])

RemoveFromSubGroup ==
    \E group_id \in GroupIds \cup {MissingId}, sub_group_id \in SubGroupIds \cup {MissingId},
       item_id \in ItemIds \cup {MissingId} :
        Handle([BaseRequest("remove_from_sub_group") EXCEPT
                   !.group_id = group_id, !.sub_group_id = sub_group_id,
                   !.item_id = item_id])

MoveMultipleItems ==
    \E data \in ItemIdsData,
       target_group_id \in GroupIds \cup {MissingId, NoneId},
       target_sub_group_id \in SubGroupIds \cup {MissingId, NoneId} :
        Handle([BaseRequest("move_multiple_items") EXCEPT
                   !.data = data, !.target_group_id = target_group_id,
                   !.target_sub_group_id = target_sub_group_id])

ToggleGroup ==
    \E group_id \in GroupIds \cup {MissingId} :
        Handle([BaseRequest("toggle_group") EXCEPT !.group_id = group_id])

UpdateGroupName ==
    \E group_id \in GroupIds \cup {MissingId}, data \in NameData :
        Handle([BaseRequest("update_group_name") EXCEPT
                   !.group_id = group_id, !.data = data])

UpdateSubGroupName ==
    \E group_id \in GroupIds \cup {MissingId}, sub_group_id \in SubGroupIds \cup {MissingId},
       data \in NameData :
        Handle([BaseRequest("update_sub_group_name") EXCEPT
                   !.group_id = group_id, !.sub_group_id = sub_group_id, !.data = data])

\* an action the handler does not know
UnknownAction ==
    /\ groups_data # NoDocument
    /\ Handle(BaseRequest("update_group"))

NextManage ==
    \/ AddMainGroup
    \/ DeleteMainGroup
    \/ AddSubGroup
    \/ DeleteSubGroup
    \/ MoveItemToUngrouped
    \/ MoveItemToMainGroupUngrouped
    \/ MoveItemToSubGroup
    \/ RemoveFromSubGroup
    \/ MoveMultipleItems
    \/ ToggleGroup
    \/ UpdateGroupName
    \/ UpdateSubGroupName
    \/ UnknownAction

SpecManage == InitManage /\ [][NextManage]_vars

\* how often an item with the id occurs in the sub-groups and in ungrouped_items
ItemOccurrences(doc, item_id) ==
    Len(SelectSeq(Flatten([g \in 1..Len(doc.main_groups) |->
                              LegacyGroupItems(doc.main_groups[g])])
                    \o doc.ungrouped_items,
                  LAMBDA item : item.id = item_id))

\* C5: after any sequence of update_group_management actions every item of the
\* original result occurs exactly once in the union of all sub-groups' items
\* and ungrouped_items.
C5_ItemsPreserved ==
    groups_data # NoDocument =>
        \A item_id \in ItemIds : ItemOccurrences(groups_data, item_id) = 1



(***************************************************************************)
(* Placement of the classified items by the chunked analysis               *)
(***************************************************************************)
\* the items of the result: those of the main groups, then the ungrouped ones
ResultItems(groups_result) ==
    Flatten([g \in 1..Len(groups_result.main_groups) |->
                LegacyGroupItems(groups_result.main_groups[g])])
        \o groups_result.ungrouped_items

\* the core types of the items, in their order
CoreTypes(items) ==
    [n \in 1..Len(items) |-> extract_core_product_type(items[n].name)]

\* the item was classified with a confidence above 0.3
IsClassified(core_type) == FracGreater(core_type.score, <<3, 10>>)

\* the classified items of the category
ClassifiedAs(types, category) ==
    Cardinality({n \in 1..Len(types) : IsClassified(types[n]) /\ types[n].category = category})

\* the categories with at least 3 classified items
PromotedTypes(types) ==
    {c \in {types[n].category : n \in 1..Len(types)} : ClassifiedAs(types, c) >= 3}

\* the ids of the items
IdsOf(items) == {items[n].id : n \in 1..Len(items)}

\* for every main group its display name and the ids of the items of its sub-groups
GroupPlaces(main_groups) ==
    [g \in 1..Len(main_groups) |->
        [name |-> main_groups[g].name, ids |-> IdsOf(LegacyGroupItems(main_groups[g]))]]

\* the item is in a sub-group of the main group with the display name of the category
InGroupOf(places, item_id, category) ==
    \E g \in 1..Len(places) :
        /\ places[g].name = Title(ReplaceUnderscores(category))
        /\ item_id \in places[g].ids

\* every item is where its core type and the size of the type put it
PlacedByType(places, ungrouped_ids, items, types, promoted) ==
    \A n \in 1..Len(items) :
        IF IsClassified(types[n]) /\ types[n].category \in promoted
        THEN /\ InGroupOf(places, items[n].id, types[n].category)
             /\ items[n].id \notin ungrouped_ids
        ELSE /\ items[n].id \in ungrouped_ids
             /\ \A g \in 1..Len(places) : items[n].id \notin places[g].ids

PlacedTypes(groups_result, items, types) ==
    \E places \in {GroupPlaces(groups_result.main_groups)} :
        \E promoted \in {PromotedTypes(types)} :
            PlacedByType(places, IdsOf(groups_result.ungrouped_items), items, types, promoted)

PlacedItems(groups_result, items) ==
    \E types \in {CoreTypes(items)} : PlacedTypes(groups_result, items, types)

\* C11 as stated: the chunked analysis of the five-row dataset puts both phones
\* in one "electronics" main group, the chair in a "furniture" main group and
\* the rice in a "food_beverages" main group, and grouped + ungrouped is 5.
C11_ScenarioGroups ==
    ChunkedDone /\ df \in ScenarioDatasets =>
        /\ result.kind = "groups_data"
        /\ InGroupOf(GroupPlaces(result.main_groups), <<"0">>, <<"e","l","e","c","t","r","o","n","i","c","s">>)
        /\ InGroupOf(GroupPlaces(result.main_groups), <<"1">>, <<"e","l","e","c","t","r","o","n","i","c","s">>)
        /\ InGroupOf(GroupPlaces(result.main_groups), <<"2">>, <<"f","u","r","n","i","t","u","r","e">>)
        /\ InGroupOf(GroupPlaces(result.main_groups), <<"4">>, <<"f","o","o","d","_","b","e","v","e","r","a","g","e","s">>)
        /\ ItemsInSubGroups(result.main_groups) + Len(result.ungrouped_items) = 5

\* C11 amended: a sampled item is in the main group of its core type exactly
\* when it was classified with a confidence above 0.3 and at least 3 sampled
\* items were classified into that type, and is ungrouped otherwise; the
\* five-row dataset has no type with 3 items, so it gets no main group and
\* all 5 items are ungrouped.
C11_PlacedByType ==
    ChunkedDone /\ result.kind = "groups_data" =>
        /\ PlacedItems(result, ResultItems(result))
        /\ df \in ScenarioDatasets =>
              /\ result.main_groups = <<>>
              /\ Len(result.ungrouped_items) = 5

\* the five-row dataset was analysed: two items are classified as electronics,
\* two as furniture, one as food_beverages, and none is in a main group
C11_Witness ==
    /\ ChunkedDone
    /\ df \in ScenarioDatasets
    /\ result.kind = "groups_data"
    /\ ClassifiedAs(CoreTypes(result.ungrouped_items), <<"e","l","e","c","t","r","o","n","i","c","s">>) = 2
    /\ ClassifiedAs(CoreTypes(result.ungrouped_items), <<"f","u","r","n","i","t","u","r","e">>) = 2
    /\ ClassifiedAs(CoreTypes(result.ungrouped_items), <<"f","o","o","d","_","b","e","v","e","r","a","g","e","s">>) = 1
    /\ result.main_groups = <<>>


(***************************************************************************)
(* estimated_savings of the main groups                                    *)
(***************************************************************************)
\* the items a main group counts: its own and those of its sub-groups
CountedItems(group) == group.items \o SubGroupItems(group)

\* C12: every main group of a result carries the estimated_savings that
\* calculate_estimated_savings gives for its item count n: n >= 10 gives
\* min(25, 10 + (n-10)*0.5), 5 <= n < 10 gives min(15, 5 + (n-5)), n < 5
\* gives max(5, 2n), as a rounded percent string; here for the column-driven
\* and the unique-value partitioner.
C12_SavingsFormula ==
    request # NoRequest /\ result.kind = "result" =>
        \A g \in 1..Len(result.groups) :
            result.groups[g].estimated_savings
                = calculate_estimated_savings(CountedItems(result.groups[g]))


(***************************************************************************)
(* Specification of the functions of a product name: one call of           *)
(* normalize_product_name, extract_core_product_type or                    *)
(* calculate_product_similarity, and a second normalisation of a           *)
(* normalised name                                                         *)
(***************************************************************************)
\* the words the names are made of: a product, a size, a number, a unit, a
\* colour, a version prefix, and a number that a hyphen keeps from its unit
NameTokens ==
    {<<"R","i","c","e">>, <<"1","-","k","g">>, <<"1">>, <<"k","g">>, <<"5","k","g">>, <<"F","l","o","u","r">>, <<"g","e","n">>, <<"b","l","u","e">>,
     <<"3">>, <<"l","a","p","t","o","p">>, <<"p","e","n","d","a","n","t">>, <<"d","e","s","k">>}

\* words in the longest name made of tokens
MaxTokens == 2

\* names of the scenarios: a colour between a version prefix and its number,
\* and two sizes of one product
ScenarioNames == {<<"g","e","n"," ","b","l","u","e"," ","3">>, <<"F","l","o","u","r"," ","1","k","g">>, <<"F","l","o","u","r"," ","5","k","g">>}

\* names for the classifier: 'oil' is a primary keyword of two categories and
\* 'gl' is part of a secondary keyword of two, 'oil filter' has a word for
\* each of two categories, 'tea' is a secondary keyword that is stronger than
\* the primary match of 'pendant' and 'teapot' has a weaker match with it
ClassifierNames == {<<"o","i","l">>, <<"g","l">>, <<"o","i","l"," ","f","i","l","t","e","r">>, <<"f","i","l","t","e","r"," ","o","i","l">>, <<"p","e","n","d","a","n","t"," ","t","e","a">>, <<"p","e","n","d","a","n","t"," ","t","e","a","p","o","t">>, <<"d","e","s","k"," ","t","e","a">>}

NameInputs ==
    {JoinSp(words) : words \in UNION {[1..n -> NameTokens] : n \in 1..MaxTokens}}
        \cup ScenarioNames
        \cup ClassifierNames

\* the items calculate_product_similarity is called with
SimilarityNames ==
    {<<"l","a","p","t","o","p">>, <<"d","e","s","k"," ","l","a","p","t","o","p">>, <<"p","e","n","d","a","n","t">>, <<"F","l","o","u","r"," ","1","k","g">>, <<"F","l","o","u","r"," ","5","k","g">>, <<"R","i","c","e"," ","1","-","k","g">>}

SimilarityItems == [name : SimilarityNames, category : {<<"U","n","k","n","o","w","n">>, <<"F","o","o","d">>}]

InitNames ==
    /\ df = <<>>
    /\ request = NoRequest
    /\ result = NoResult
    /\ ValidatorIdle
    /\ OracleIdle
    /\ ManageIdle

\* normalize_product_name(product_name)
NormalizeProductName ==
    /\ request = NoRequest
    /\ \E product_name \in NameInputs :
         /\ request' = [op |-> "normalize_product_name",
                        product_name |-> product_name, pass |-> 1]
         /\ result' = [kind |-> "value", value |-> normalize_product_name(product_name)]
    /\ UNCHANGED <<df, validatorVars, manageVars, oracleVars>>

\* normalize_product_name of the name the first call returned
NormalizeAgain ==
    /\ request.op = "normalize_product_name"
    /\ request.pass = 1
    /\ request' = [op |-> "normalize_product_name",
                   product_name |-> result.value, pass |-> 2]
    /\ result' = [kind |-> "value", value |-> normalize_product_name(result.value)]
    /\ UNCHANGED <<df, validatorVars, manageVars, oracleVars>>

\* extract_core_product_type(product_name)
ExtractCoreProductType ==
    /\ request = NoRequest
    /\ \E product_name \in NameInputs :
         /\ request' = [op |-> "extract_core_product_type", product_name |-> product_name]
         /\ result' = [kind |-> "value", value |-> extract_core_product_type(product_name)]
    /\ UNCHANGED <<df, validatorVars, manageVars, oracleVars>>

\* calculate_product_similarity(item1, item2)
CalculateProductSimilarity ==
    /\ request = NoRequest
    /\ \E item1 \in SimilarityItems, item2 \in SimilarityItems :
         /\ request' = [op |-> "calculate_product_similarity",
                        item1 |-> item1, item2 |-> item2]
         /\ result' = [kind |-> "value", value |-> calculate_product_similarity(item1, item2)]
    /\ UNCHANGED <<df, validatorVars, manageVars, oracleVars>>

NextNames ==
    \/ NormalizeProductName
    \/ NormalizeAgain
    \/ ExtractCoreProductType
    \/ CalculateProductSimilarity

SpecNames == InitNames /\ [][NextNames]_vars

\* C13: normalising a normalised name gives the same name:
\* normalize_product_name(normalize_product_name(x)) = normalize_product_name(x)
\* for every name x, also one where punctuation separates a number from its
\* unit or a colour splits a version from its number.
C13_NormalizeIdempotent ==
    request.op = "normalize_product_name" /\ request.pass = 2 =>
        result.value = request.product_name


\* two fractions with positive denominators are the same number
FracEqual(p, q) == p[1] * q[2] = q[1] * p[2]

\* C14: the similarity of two items does not depend on their order:
\* calculate_product_similarity(a, b) = calculate_product_similarity(b, a)
\* for every pair of items.
C14_SimilaritySymmetric ==
    request.op = "calculate_product_similarity" =>
        \E swapped \in {calculate_product_similarity(request.item2, request.item1)} :
            FracEqual(result.value, swapped)


\* the normalised form of every name of the model
NormalizedInputs == [name \in NameInputs |-> normalize_product_name(name)]

\* the names of the model that have the normalised form normalized
NamesNormalizedTo(normalized) ==
    {other \in NameInputs : NormalizedInputs[other] = normalized}

\* C19: extract_core_product_type returns the same result when it is called
\* again with the same name, and every name with the same normalised form,
\* such as 'Flour 1kg' and 'Flour 5kg', gets the same category and
\* subcategory.
C19_SameNormalizedSameType ==
    request.op = "extract_core_product_type" =>
        /\ extract_core_product_type(request.product_name) = result.value
        /\ \A other \in NamesNormalizedTo(normalize_product_name(request.product_name)) :
              \E again \in {extract_core_product_type(other)} :
                  /\ again.category = result.value.category
                  /\ again.subcategory = result.value.subcategory

\* 'Flour 1kg' was classified as food, and 'Flour 5kg' and 'Flour' have the
\* same normalised form
C19_Witness ==
    /\ request.op = "extract_core_product_type"
    /\ request.product_name = <<"F","l","o","u","r"," ","1","k","g">>
    /\ result.value.category = <<"f","o","o","d","_","b","e","v","e","r","a","g","e","s">>
    /\ {<<"F","l","o","u","r"," ","1","k","g">>, <<"F","l","o","u","r"," ","5","k","g">>, <<"F","l","o","u","r">>}
          \subseteq NamesNormalizedTo(normalize_product_name(request.product_name))

\* C20: a classification with a confidence below 0.5 has the category
\* 'other', and the first word longer than 2 characters, when there is one, as
\* the subcategory, also when a keyword matched with a score between 0 and 0.5.
C20_LowConfidenceIsOther ==
    request.op = "extract_core_product_type"
    /\ ~FracAtLeast(result.value.score, <<1, 2>>) =>
        /\ result.value.category = <<"o","t","h","e","r">>
        /\ \E words \in {MeaningfulWords(NormalizedWords(request.product_name))} :
              words # <<>> => result.value.subcategory = words[1]


(***************************************************************************)
(* Malformed input                                                         *)
(***************************************************************************)
\* the column generate_groups_with_config groups by
GroupingColumn(config) ==
    IF config.use_main_groups /\ Truthy(config.main_group_column)
    THEN config.main_group_column
    ELSE config.sub_group_column

\* the dataset is empty, or it does not have the column the call groups by
IsMalformed(d, column) == d = <<>> \/ column \notin Columns

\* C15: a call of generate_groups_with_config or of
\* generate_main_groups_from_unique_values with an empty dataset, or with a
\* grouping column the dataset does not have, does not return a Grouping
\* Result: it raises or returns None.
C15_MalformedRejected ==
    /\ request.op = "generate_groups_with_config"
       /\ IsMalformed(df, GroupingColumn(request)) => result.kind # "result"
    /\ request.op = "generate_main_groups_from_unique_values"
       /\ IsMalformed(df, request.column_name) => result.kind # "result"


(***************************************************************************)
(* Structured final results of a stored document                           *)
(***************************************************************************)
\* item.get('count', item.get('quantity', 1))
ItemCount(item) ==
    IF "count" \in DOMAIN item THEN item.count
    ELSE IF "quantity" \in DOMAIN item THEN item.quantity
    ELSE 1

\* one entry of unique_items: the name of the first item with the key and the
\* sum of the counts of all items with the key
UniqueItem(items, item_key) ==
    [name |-> items[MinOf({n \in 1..Len(items) : Strip(items[n].name) = item_key})].name,
     count |-> SumSeq([n \in 1..Len(items) |->
                  IF Strip(items[n].name) = item_key THEN ItemCount(items[n]) ELSE 0])]

\* unique_items.values() in insertion order
UniqueItems(items) ==
    [k \in 1..Len(InsertionOrder([n \in 1..Len(items) |-> Strip(items[n].name)])) |->
        UniqueItem(items, InsertionOrder([n \in 1..Len(items) |-> Strip(items[n].name)])[k])]

\* (-x['count'], x['name']) of a is smaller than that of b
CountKeyLess(a, b) ==
    \/ a.count > b.count
    \/ a.count = b.count /\ StrLess(a.name, b.name)

\* sorted(unique_items.values(), key=...): equal keys keep their order
SortedByCount(unique_items) ==
    [r \in 1..Len(unique_items) |->
        unique_items[CHOOSE n \in 1..Len(unique_items) :
            Cardinality({m \in 1..Len(unique_items) :
                \/ CountKeyLess(unique_items[m], unique_items[n])
                \/ m < n /\ ~CountKeyLess(unique_items[n], unique_items[m])}) = r - 1]]

\* sub_group_data of one sub-group
FinalSubGroupData(sub_group_info, sub_group_items) ==
    [name |-> sub_group_info.name,
     items |-> sub_group_items,
     total_items |-> SumSeq([n \in 1..Len(sub_group_items) |-> sub_group_items[n].count])]

\* main_group_data["sub_groups"]: the sub-groups that have items
FinalSubGroups(sub_groups) ==
    SelectSeq([k \in 1..Len(sub_groups) |->
                  FinalSubGroupData(sub_groups[k],
                                    SortedByCount(UniqueItems(sub_groups[k].items)))],
              LAMBDA sub_group_data : sub_group_data.items # <<>>)

\* main_group_data of one main group
FinalMainGroupData(group_info, final_sub_groups) ==
    [name |-> group_info.name,
     sub_groups |-> final_sub_groups,
     total_items |-> SumSeq([k \in 1..Len(final_sub_groups) |->
                        final_sub_groups[k].total_items]),
     estimated_savings |->
        IF "estimated_savings" \in DOMAIN group_info THEN group_info.estimated_savings
        ELSE <<"0","%">>]

\* final_results["main_groups"]: the main groups that have sub-groups
FinalMainGroups(main_groups) ==
    SelectSeq([g \in 1..Len(main_groups) |->
                  FinalMainGroupData(main_groups[g],
                                     FinalSubGroups(main_groups[g].sub_groups))],
              LAMBDA main_group_data : main_group_data.sub_groups # <<>>)

\* f"{total / count:.0f}": the nearest integer, the even one of two nearest
RoundedQuotient(total, count) ==
    IF 2 * (total % count) < count THEN total \div count
    ELSE IF 2 * (total % count) > count THEN (total \div count) + 1
    ELSE IF (total \div count) % 2 = 0 THEN total \div count
    ELSE (total \div count) + 1

\* float(savings_str.replace('%', '')) of a percentage written in digits
SavingsNumber(savings_str) == ParseDigits(SelectSeq(savings_str, LAMBDA c : c # "%"))

\* estimated_total_savings: the average of the savings of the main groups
EstimatedTotalSavings(final_main_groups) ==
    IF final_main_groups = <<>> THEN <<"0","%">>
    ELSE IntToStr(RoundedQuotient(
             SumSeq([g \in 1..Len(final_main_groups) |->
                        SavingsNumber(final_main_groups[g].estimated_savings)]),
             Len(final_main_groups))) \o <<"%">>

\* final_results for the main groups it lists
FinalResults(final_main_groups, ungrouped_items) ==
    [main_groups |-> final_main_groups,
     total_items |-> SumSeq([g \in 1..Len(final_main_groups) |->
                        final_main_groups[g].total_items]) + Len(ungrouped_items),
     total_groups |-> Len(final_main_groups),
     total_sub_groups |-> SumSeq([g \in 1..Len(final_main_groups) |->
                             Len(final_main_groups[g].sub_groups)]),
     ungrouped_items_count |-> Len(ungrouped_items),
     estimated_total_savings |-> EstimatedTotalSavings(final_main_groups)]

\* generate_structured_final_results of a document that has main_groups
generate_structured_final_results(doc) ==
    FinalResults(FinalMainGroups(doc.main_groups), doc.ungrouped_items)

\* POST /api/final-results/save/{file_id}
SaveFinalResults ==
    /\ groups_data # NoDocument
    /\ request' = BaseRequest("save_final_results")
    /\ result' = [kind |-> "final_results",
                  structured_results |-> generate_structured_final_results(groups_data)]
    /\ UNCHANGED <<groups_data, updates, df, validatorVars, oracleVars>>

\* the stored document and what its users do with it
NextFinalResults ==
    \/ NextManage
    \/ SaveFinalResults

SpecFinalResults == InitManage /\ [][NextFinalResults]_vars

\* the main groups of the stored document that are disabled
DisabledGroups ==
    {g \in 1..Len(groups_data.main_groups) : ~groups_data.main_groups[g].enabled}

\* the number of items in the sub-groups of the main groups at the positions
ItemsOfGroups(positions) ==
    Len(Flatten([g \in 1..Len(groups_data.main_groups) |->
            IF g \in positions THEN LegacyGroupItems(groups_data.main_groups[g]) ELSE <<>>]))

\* C16: a disabled main group stays in groups_data with its items, and the
\* saved final results list no main group for it and count none of its items
\* in total_items.
C16_DisabledExcluded ==
    result.kind = "final_results" =>
        /\ result.structured_results.total_items
             = ItemsOfGroups((1..Len(groups_data.main_groups)) \ DisabledGroups)
                 + Len(groups_data.ungrouped_items)
        /\ result.structured_results.total_groups
             <= Len(groups_data.main_groups) - Cardinality(DisabledGroups)


(***************************************************************************)
(* The two formats of groups_data (server.py)                              *)
(*                                                                         *)
(* The array format has 'groups', a list of main groups whose sub_groups   *)
(* are lists; the dictionary (legacy) format has 'main_groups', a dict of  *)
(* main groups whose sub_groups are dicts.  A dict is a sequence of        *)
(* entries in insertion order, every entry carrying its key.               *)
(***************************************************************************)
\* a dict built by dict[entry.key] = entry for every entry in turn
RECURSIVE DictOf(_)
DictOf(entries) ==
    IF entries = <<>> THEN <<>>
    ELSE IF HasEntry(DictOf(SubSeq(entries, 1, Len(entries) - 1)), entries[Len(entries)].key)
    THEN [DictOf(SubSeq(entries, 1, Len(entries) - 1)) EXCEPT
            ![EntryPos(DictOf(SubSeq(entries, 1, Len(entries) - 1)), entries[Len(entries)].key)] =
                entries[Len(entries)]]
    ELSE Append(DictOf(SubSeq(entries, 1, Len(entries) - 1)), entries[Len(entries)])

\* group.get('count', group.get('item_count', 0))
CountOf(group) == GetField(group, "count", GetField(group, "item_count", 0))

\* the top-level fields both conversions copy
CopiedFields(data) ==
    [ungrouped_items |-> GetField(data, "ungrouped_items", <<>>),
     validation |-> GetField(data, "validation", <<>>),
     total_items |-> GetField(data, "total_items", 0),
     grouped_items |-> GetField(data, "grouped_items", 0),
     ungrouped_count |-> GetField(data, "ungrouped_count", 0),
     total_groups |-> GetField(data, "total_groups", 0),
     total_sub_groups |-> GetField(data, "total_sub_groups", 0),
     estimated_time_saved |-> GetField(data, "estimated_time_saved", <<"0"," ","m","i","n","u","t","e","s">>),
     is_valid |-> GetField(data, "is_valid", TRUE)]

\* a sub-group of either format as the conversions write it
ConvertedSubGroup(sub_group, sub_group_id) ==
    [id |-> sub_group_id,
     name |-> GetField(sub_group, "name", <<"U","n","n","a","m","e","d"," ","S","u","b"," ","G","r","o","u","p">>),
     items |-> GetField(sub_group, "items", <<>>),
     count |-> GetField(sub_group, "count", Len(GetField(sub_group, "items", <<>>))),
     is_ungrouped_subgroup |-> GetField(sub_group, "is_ungrouped_subgroup", FALSE)]

\* sub_groups_dict of one group of the array format
sub_groups_dict(group) ==
    DictOf([k \in 1..Len(GetField(group, "sub_groups", <<>>)) |->
              SetField(ConvertedSubGroup(group.sub_groups[k], group.sub_groups[k].id),
                       "key", group.sub_groups[k].id)])

\* legacy_data['main_groups'][group_id] of one group of the array format
LegacyMainGroup(group) ==
    [key |-> group.id,
     id |-> group.id,
     name |-> GetField(group, "name", <<"U","n","n","a","m","e","d"," ","G","r","o","u","p">>),
     enabled |-> GetField(group, "enabled", TRUE),
     type |-> GetField(group, "type", <<"m","a","i","n">>),
     sub_groups |-> sub_groups_dict(group),
     total_items |-> CountOf(group),
     estimated_savings |-> GetField(group, "estimated_savings", <<"0","%">>),
     count |-> CountOf(group),
     item_count |-> CountOf(group)]

\* convert_groups_to_legacy_format; data without 'groups' is returned as it is
convert_groups_to_legacy_format(data) ==
    IF "groups" \notin DOMAIN data THEN data
    ELSE SetField(CopiedFields(data), "main_groups",
                  DictOf([g \in 1..Len(data.groups) |-> LegacyMainGroup(data.groups[g])]))

\* sub_groups_array of one main group of the dictionary format
sub_groups_array(group) ==
    [k \in 1..Len(GetField(group, "sub_groups", <<>>)) |->
        ConvertedSubGroup(group.sub_groups[k], group.sub_groups[k].key)]

\* the group appended to groups_data['groups'] for one main group of the dict
ArrayMainGroup(group) ==
    [id |-> group.key,
     name |-> GetField(group, "name", <<"U","n","n","a","m","e","d"," ","G","r","o","u","p">>),
     enabled |-> GetField(group, "enabled", TRUE),
     type |-> GetField(group, "type", <<"m","a","i","n">>),
     items |-> GetField(group, "items", <<>>),
     sub_groups |-> sub_groups_array(group),
     count |-> CountOf(group),
     item_count |-> CountOf(group),
     estimated_savings |-> GetField(group, "estimated_savings", <<"0","%">>)]

\* len(items) summed over the sub-groups of the main groups
RECURSIVE SumOfLengths(_)
SumOfLengths(ss) == IF ss = <<>> THEN 0 ELSE Len(Head(ss)) + SumOfLengths(Tail(ss))

\* total_grouped of the array format: direct items and the items of sub-groups
ArrayTotalGrouped(groups_array) ==
    SumOfLengths([g \in 1..Len(groups_array) |->
        GetField(groups_array[g], "items", <<>>)
        \o Flatten([k \in 1..Len(GetField(groups_array[g], "sub_groups", <<>>)) |->
                      GetField(groups_array[g].sub_groups[k], "items", <<>>)])])

\* total_grouped of the dictionary format: the items of sub-groups only
LegacyTotalGrouped(main_groups) ==
    SumOfLengths([g \in 1..Len(main_groups) |->
        Flatten([k \in 1..Len(GetField(main_groups[g], "sub_groups", <<>>)) |->
                   GetField(main_groups[g].sub_groups[k], "items", <<>>)])])

\* total_sub_groups of either format
TotalSubGroups(main_groups) ==
    SumOfLengths([g \in 1..Len(main_groups) |-> GetField(main_groups[g], "sub_groups", <<>>)])

\* validation_data and the totals written next to it
WithValidation(data, total_grouped, main_groups) ==
    [f \in DOMAIN data \cup {"validation", "total_items", "grouped_items", "ungrouped_count",
                             "total_groups", "total_sub_groups"} |->
        CASE f = "validation" ->
                [is_valid |-> TRUE, errors |-> <<>>, warnings |-> <<>>,
                 counts |-> [total_rows |-> total_grouped + Len(GetField(data, "ungrouped_items", <<>>)),
                             grouped_records |-> total_grouped,
                             ungrouped_records |-> Len(GetField(data, "ungrouped_items", <<>>)),
                             main_groups |-> Len(main_groups),
                             total_sub_groups |-> TotalSubGroups(main_groups)]]
          [] f = "total_items" -> total_grouped + Len(GetField(data, "ungrouped_items", <<>>))
          [] f = "grouped_items" -> total_grouped
          [] f = "ungrouped_count" -> Len(GetField(data, "ungrouped_items", <<>>))
          [] f = "total_groups" -> Len(main_groups)
          [] f = "total_sub_groups" -> TotalSubGroups(main_groups)
          [] OTHER -> data[f]]

\* validation of data in neither format
UnknownFormatValidation ==
    [is_valid |-> FALSE, errors |-> << <<"U","n","k","n","o","w","n"," ","d","a","t","a"," ","f","o","r","m","a","t">> >>, warnings |-> <<>>,
     counts |-> [total_rows |-> 0, grouped_records |-> 0, ungrouped_records |-> 0,
                 main_groups |-> 0, total_sub_groups |-> 0]]

\* recalculate_validation_data of server.py
recalculate_validation_data(data) ==
    IF "groups" \in DOMAIN data
    THEN WithValidation(data, ArrayTotalGrouped(data.groups), data.groups)
    ELSE IF "main_groups" \in DOMAIN data
    THEN WithValidation(data, LegacyTotalGrouped(data.main_groups), data.main_groups)
    ELSE SetField(data, "validation", UnknownFormatValidation)

\* not validation or not validation.get('counts')
ValidationIsEmpty(validation) ==
    DOMAIN validation = {} \/ "counts" \notin DOMAIN validation \/ DOMAIN validation.counts = {}

\* the top-level fields of the converted data: recalculated from the legacy
\* data when its validation is empty
ConvertedFields(legacy_data) ==
    IF ValidationIsEmpty(GetField(legacy_data, "validation", <<>>))
    THEN [f \in DOMAIN CopiedFields(legacy_data) |->
            IF f \in {"validation", "total_items", "grouped_items", "ungrouped_count",
                      "total_groups", "total_sub_groups"}
            THEN recalculate_validation_data(legacy_data)[f]
            ELSE CopiedFields(legacy_data)[f]]
    ELSE CopiedFields(legacy_data)

\* convert_legacy_to_groups_format; data without 'main_groups' is returned as
\* it is
convert_legacy_to_groups_format(legacy_data) ==
    IF "main_groups" \notin DOMAIN legacy_data THEN legacy_data
    ELSE SetField(ConvertedFields(legacy_data), "groups",
                  [g \in 1..Len(legacy_data.main_groups) |->
                      ArrayMainGroup(legacy_data.main_groups[g])])

(***************************************************************************)
(* Specification of the conversions: groups_data of one format converted   *)
(* to the other format and back                                            *)
(***************************************************************************)
\* main groups of one result
MaxConvertedGroups == 2

ConvertedItem(id) == [id |-> id, name |-> <<"l","a","p","t","o","p">>, price |-> 0, quantity |-> 1]

\* the sub_groups of a main group of the array format: none, one sub-group
\* with an item, one without
ArraySubGroupLists(g) ==
    { <<>>,
      << [id |-> generate_group_id(g, 1), name |-> <<"A","l","l"," ","I","t","e","m","s">>,
          items |-> << ConvertedItem(IntToStr(10 * g)) >>, count |-> 1,
          is_ungrouped_subgroup |-> FALSE] >>,
      << [id |-> generate_group_id(g, 1), name |-> <<"U","n","g","r","o","u","p","e","d"," ","I","t","e","m","s">>,
          items |-> <<>>, count |-> 0, is_ungrouped_subgroup |-> TRUE] >> }

\* the items directly on a main group of the array format
DirectItemLists(g) == { <<>>, << ConvertedItem(IntToStr(10 * g + 1)) >> }

\* the g-th main group of a result of the array format
ArrayGroups(g) ==
    { [id |-> Uuid(<<"u">>, g), name |-> <<"G","r","o","u","p"," ">> \o IntToStr(g), enabled |-> enabled,
       type |-> <<"m","a","i","n">>, items |-> items, sub_groups |-> subs,
       count |-> Len(items) + SumOfLengths([k \in 1..Len(subs) |-> subs[k].items]),
       item_count |-> Len(items) + SumOfLengths([k \in 1..Len(subs) |-> subs[k].items]),
       estimated_savings |-> <<"5","%">>] :
      enabled \in BOOLEAN, items \in DirectItemLists(g), subs \in ArraySubGroupLists(g) }

ArrayGroupLists ==
    { <<>> } \cup { <<a>> : a \in ArrayGroups(1) }
    \cup { <<a, b>> : a \in ArrayGroups(1), b \in ArrayGroups(2) }

\* results of the array format, with the validation of their counts
ArrayResults ==
    { recalculate_validation_data(
          [groups |-> gs, ungrouped_items |-> ungrouped,
           estimated_time_saved |-> <<"1"," ","m","i","n","u","t","e","s">>, is_valid |-> TRUE]) :
      gs \in ArrayGroupLists, ungrouped \in { <<>>, << ConvertedItem(<<"9","9">>) >> } }

\* documents of the dictionary format: those stored after an upload
LegacyDocuments ==
    { StoredDocument(generate_intelligent_groups(d, "first")) : d \in ManagedDatasets }

InitConvert ==
    /\ \/ result \in ArrayResults /\ groups_data = NoDocument
       \/ groups_data \in LegacyDocuments /\ result = NoResult
    /\ request = NoRequest
    /\ updates = 0
    /\ df = <<>>
    /\ ValidatorIdle
    /\ OracleIdle

\* how many conversions the data went through
Conversions == IF request = NoRequest THEN 0 ELSE request.pass

\* convert_groups_to_legacy_format on the data of the array format
ConvertGroupsToLegacy ==
    /\ result # NoResult
    /\ \/ Conversions = 0
       \/ Conversions = 1 /\ request.op = "convert_legacy_to_groups_format"
    /\ groups_data' = convert_groups_to_legacy_format(result)
    /\ request' = [op |-> "convert_groups_to_legacy_format",
                   original |-> IF Conversions = 0 THEN result ELSE request.original,
                   pass |-> Conversions + 1]
    /\ UNCHANGED <<result, updates, df, validatorVars, oracleVars>>

\* convert_legacy_to_groups_format on the data of the dictionary format
ConvertLegacyToGroups ==
    /\ groups_data # NoDocument
    /\ \/ Conversions = 0
       \/ Conversions = 1 /\ request.op = "convert_groups_to_legacy_format"
    /\ result' = convert_legacy_to_groups_format(groups_data)
    /\ request' = [op |-> "convert_legacy_to_groups_format",
                   original |-> IF Conversions = 0 THEN groups_data ELSE request.original,
                   pass |-> Conversions + 1]
    /\ UNCHANGED <<groups_data, updates, df, validatorVars, oracleVars>>

NextConvert == ConvertGroupsToLegacy \/ ConvertLegacyToGroups

SpecConvert == InitConvert /\ [][NextConvert]_vars

\* the main groups of data of either format
MainGroupsOf(data) == IF "groups" \in DOMAIN data THEN data.groups ELSE data.main_groups

\* the id of a main group or sub-group: its key in the dictionary format
IdOf(entry) == IF "key" \in DOMAIN entry THEN entry.key ELSE entry.id

\* the ids and names of a list or dict of groups
IdsAndNames(entries) ==
    [n \in 1..Len(entries) |-> <<IdOf(entries[n]), GetField(entries[n], "name", None)>>]

\* the same main groups, the same sub-groups of every main group, the same
\* items in every sub-group and directly on every main group, the same
\* ungrouped_items and the same validation
SameGrouping(a, b) ==
    /\ IdsAndNames(MainGroupsOf(a)) = IdsAndNames(MainGroupsOf(b))
    /\ \A g \in 1..Len(MainGroupsOf(a)) :
          /\ IdsAndNames(MainGroupsOf(a)[g].sub_groups) = IdsAndNames(MainGroupsOf(b)[g].sub_groups)
          /\ \A k \in 1..Len(MainGroupsOf(a)[g].sub_groups) :
                MainGroupsOf(a)[g].sub_groups[k].items = MainGroupsOf(b)[g].sub_groups[k].items
          /\ GetField(MainGroupsOf(a)[g], "items", <<>>) = GetField(MainGroupsOf(b)[g], "items", <<>>)
    /\ GetField(a, "ungrouped_items", <<>>) = GetField(b, "ungrouped_items", <<>>)
    /\ GetField(a, "validation", <<>>) = GetField(b, "validation", <<>>)

\* C17: data converted to the other format and back has the same main
\* groups, sub-groups, items in every sub-group and directly on every main
\* group, ungrouped_items and validation as the data it started from, from
\* either format
C17_RoundTripPreservesGrouping ==
    Conversions = 2 =>
        SameGrouping(IF request.op = "convert_legacy_to_groups_format" THEN result ELSE groups_data,
                     request.original)


(***************************************************************************)
(* Specification of the items: create_item_from_row on one row whose price *)
(* and quantity columns hold any of a few cells                           *)
(***************************************************************************)
\* the cells of a price or quantity column: missing, empty, whole numbers,
\* numbers with a fraction, negative numbers, zero, and texts that are not
\* numbers
NumberCells ==
    {NaN, <<>>, <<"7">>, <<"0">>, <<"-","5">>, <<"2",".","5">>, <<"-","0",".","5">>, <<"a","b","c">>, <<"$","1",",","0","0","0">>, <<" ","3"," ">>}

PriceColumns == {"price", "Price"}

QuantityColumns == {"quantity", "Quantity"}

\* the row with one more column; None stands for no column
WithColumn(row, column, cell) == IF column = None THEN row ELSE SetField(row, column, cell)

\* rows with and without a price column and a quantity column
ItemRows ==
    { WithColumn(WithColumn([main |-> <<"R","i","c","e">>, sub |-> NaN], price_column, price),
                 quantity_column, quantity) :
      price_column \in PriceColumns \cup {None}, price \in NumberCells,
      quantity_column \in QuantityColumns \cup {None}, quantity \in NumberCells }

InitItems ==
    /\ df \in {<<row>> : row \in ItemRows}
    /\ request = NoRequest
    /\ result = NoResult
    /\ groups_data = NoDocument
    /\ updates = 0
    /\ ValidatorIdle
    /\ OracleIdle

\* create_item_from_row(row, index, main_value, sub_value) on the row of df, as
\* generate_main_groups_from_unique_values calls it for a value and for a row
\* without one
CreateItemFromRow ==
    /\ request = NoRequest
    /\ \E values \in {<<<<"R","i","c","e">>, <<"R","i","c","e">>>>, <<<<"U","n","g","r","o","u","p","e","d">>, <<"N","o"," ","V","a","l","u","e">>>>} :
          /\ request' = [op |-> "create_item_from_row", main_value |-> values[1],
                         sub_value |-> values[2]]
          /\ result' = [kind |-> "item",
                        item |-> create_item_from_row(df, 0, values[1], values[2])]
    /\ UNCHANGED <<df, groups_data, updates, validatorVars, oracleVars>>

NextItems == CreateItemFromRow

SpecItems == InitItems /\ [][NextItems]_vars

\* the cell create_item_from_row reads the price from; no column is a missing
\* cell
PriceCell == GetField(df[1], "price", GetField(df[1], "Price", NaN))

\* the cell create_item_from_row reads the quantity from
QuantityCell == GetField(df[1], "quantity", GetField(df[1], "Quantity", NaN))

\* a missing cell, or a text that is not a number
MissingOrUnparseable(cell, cleaned) == IsNa(cell) \/ cell = <<>> \/ ~IsFloatText(cleaned)

\* C18: every item built from a row has price >= 0 and quantity >= 1; a
\* missing or unparseable price becomes 0.0 and a missing or unparseable
\* quantity becomes 1, also for a row whose price is negative or whose
\* quantity is zero or negative
C18_ItemNumericDomains ==
    result.kind = "item" =>
        /\ FracAtLeast(result.item.price, <<0, 1>>)
        /\ result.item.quantity >= 1
        /\ MissingOrUnparseable(PriceCell, CleanNumber(PriceCell)) =>
              result.item.price = <<0, 1>>
        /\ MissingOrUnparseable(QuantityCell, CleanInteger(QuantityCell)) =>
              result.item.quantity = 1


(***************************************************************************)
(* Null and blank sub-values of create_groups_from_columns                 *)
(***************************************************************************)
\* does the sub-group hold the item built from the row with index i
HoldsRow(sub_group, i) ==
    \E n \in 1..Len(sub_group.items) : sub_group.items[n].source_row = i

\* the sub-groups of the main groups named after main_value that hold the row
\* with index i, as pairs <<g, k>>
SubGroupsOfRow(gs, main_value, i) ==
    { p \in UNION { {<<g, k>> : k \in 1..Len(gs[g].sub_groups)} : g \in 1..Len(gs) } :
        /\ gs[p[1]].name = clean_group_name(Str(main_value))
        /\ HoldsRow(gs[p[1]].sub_groups[p[2]], i) }

\* the sub-groups of a main group that are flagged is_ungrouped_subgroup
UngroupedSubGroupsOf(group) ==
    { k \in 1..Len(group.sub_groups) : group.sub_groups[k].is_ungrouped_subgroup }

\* C21: in the groups create_groups_from_columns builds with a sub column,
\* every row of a main group whose sub-column value is null or blank is in the
\* one sub-group 'Ungrouped Items' of its main group, flagged
\* is_ungrouped_subgroup, every other row is in the unflagged sub-group of its
\* sub-column value, and no row of a main group is left out
C21_NullSubValuesUngrouped ==
    ( /\ request.op = "generate_groups_with_config"
      /\ request.use_main_groups
      /\ request.main_group_column = "main"
      /\ request.sub_group_column = "sub" )
    => /\ \A g \in 1..Len(result.groups) : Cardinality(UngroupedSubGroupsOf(result.groups[g])) <= 1
       /\ \A i \in 0..(Len(df) - 1) :
            ~IsBlankValue(RowAt(df, i).main) =>
                /\ SubGroupsOfRow(result.groups, RowAt(df, i).main, i) # {}
                /\ \A p \in SubGroupsOfRow(result.groups, RowAt(df, i).main, i) :
                      IF IsBlankValue(RowAt(df, i).sub)
                      THEN /\ result.groups[p[1]].sub_groups[p[2]].name = <<"U","n","g","r","o","u","p","e","d"," ","I","t","e","m","s">>
                           /\ result.groups[p[1]].sub_groups[p[2]].is_ungrouped_subgroup
                      ELSE /\ result.groups[p[1]].sub_groups[p[2]].name =
                                  clean_group_name(Str(RowAt(df, i).sub))
                           /\ ~result.groups[p[1]].sub_groups[p[2]].is_ungrouped_subgroup


(***************************************************************************)
(* AI sub-grouping: a plan of the oracle applied to the rows of one main   *)
(* group or of the whole dataset                                           *)
(***************************************************************************)
\* df[df[sub_column] == value]: a NaN cell equals no value
ExactRows(d, sub_column, value) ==
    SelectSeq(AllIndex(d), LAMBDA i : ~IsNa(RowAt(d, i)[sub_column]) /\ RowAt(d, i)[sub_column] = value)

\* actual_clean == value_clean or value_clean in actual_clean or actual_clean
\* in value_clean, both stripped and lowered
FuzzyMatches(value, actual_value) ==
    \/ Lower(Strip(Str(actual_value))) = Lower(Strip(value))
    \/ IsSubstr(Lower(Strip(value)), Lower(Strip(Str(actual_value))))
    \/ IsSubstr(Lower(Strip(Str(actual_value))), Lower(Strip(value)))

\* the values of df[sub_column].unique() a planned value matches fuzzily
FuzzyValues(d, sub_column, value) ==
    SelectSeq(FirstAppearance(d, sub_column), LAMBDA actual_value : FuzzyMatches(value, actual_value))

\* matching_rows of one planned value: the exact matches, and without one the
\* rows of the first value that matches fuzzily
MatchingRows(d, sub_column, value) ==
    IF ExactRows(d, sub_column, value) # <<>> THEN ExactRows(d, sub_column, value)
    ELSE IF FuzzyValues(d, sub_column, value) # <<>>
    THEN ExactRows(d, sub_column, FuzzyValues(d, sub_column, value)[1])
    ELSE <<>>

\* the items of the rows, each with its own value of the sub column
PlannedItems(d, rows, group_name, sub_column) ==
    [n \in 1..Len(rows) |->
        create_item_from_row(d, rows[n], group_name, RowAt(d, rows[n])[sub_column])]

\* group_items of one group of the plan: the matching rows of its planned
\* values, value after value
GroupPlanItems(d, group_plan, sub_column) ==
    Flatten([v \in 1..Len(GetField(group_plan, "values", <<>>)) |->
        PlannedItems(d, MatchingRows(d, sub_column, group_plan.values[v]),
                     GetField(group_plan, "name", <<"U","n","k","n","o","w","n"," ","G","r","o","u","p">>), sub_column)])

\* the sub-group of one group of the plan
PlannedSubGroup(group_plan, group_items, k) ==
    [id |-> generate_group_id(0, k),
     name |-> GetField(group_plan, "name", <<"U","n","k","n","o","w","n"," ","G","r","o","u","p">>),
     items |-> group_items,
     count |-> Len(group_items),
     item_count |-> Len(group_items),
     reasoning |-> GetField(group_plan, "reasoning", <<"A","I","-","g","r","o","u","p","e","d"," ","b","y"," ","c","o","r","e"," ","p","r","o","d","u","c","t"," ","t","y","p","e">>)]

\* the sub-groups of the groups of the plan that got items, in plan order
RECURSIVE PlannedSubGroups(_, _, _)
PlannedSubGroups(d, group_plans, sub_column) ==
    IF group_plans = <<>> THEN <<>>
    ELSE IF GroupPlanItems(d, group_plans[Len(group_plans)], sub_column) = <<>>
    THEN PlannedSubGroups(d, SubSeq(group_plans, 1, Len(group_plans) - 1), sub_column)
    ELSE Append(PlannedSubGroups(d, SubSeq(group_plans, 1, Len(group_plans) - 1), sub_column),
                PlannedSubGroup(group_plans[Len(group_plans)],
                                GroupPlanItems(d, group_plans[Len(group_plans)], sub_column),
                                Len(PlannedSubGroups(d, SubSeq(group_plans, 1, Len(group_plans) - 1),
                                                     sub_column)) + 1))

\* apply_ai_sub_grouping_plan
apply_ai_sub_grouping_plan(d, plan, sub_column) ==
    PlannedSubGroups(d, GetField(plan, "sub_groups", <<>>), sub_column)

\* used_values of add_other_items_sub_group: the values of the sub column in
\* the row_data of the items, None and '' left out
UsedValues(existing_sub_groups, sub_column) ==
    { item.row_data[sub_column] :
        item \in { SubGroupItems([sub_groups |-> existing_sub_groups])[n] :
                     n \in 1..Len(SubGroupItems([sub_groups |-> existing_sub_groups])) } }
    \ { <<None>>, <<>> }

\* unused_values: set(df[sub_column].dropna().unique()) - used_values
UnusedValues(d, existing_sub_groups, sub_column) ==
    { RowAt(d, i)[sub_column] : i \in { j \in 0..(Len(d) - 1) : ~IsNa(RowAt(d, j)[sub_column]) } }
    \ UsedValues(existing_sub_groups, sub_column)

\* the orders in which a set can be iterated
IterationOrders(S) ==
    { order \in [1..Cardinality(S) -> S] :
        \A m, n \in 1..Cardinality(S) : order[m] = order[n] => m = n }

\* other_items: the rows of the unused values, in the order the set gives them
OtherItems(d, unused_values, sub_column) ==
    Flatten([v \in 1..Len(unused_values) |->
        ItemsFromRows(d, ExactRows(d, sub_column, unused_values[v]),
                      <<"O","t","h","e","r"," ","I","t","e","m","s">>, Str(unused_values[v]))])

\* add_other_items_sub_group; unused_values is the set of unused values in
\* the order of its iteration
add_other_items_sub_group(d, existing_sub_groups, sub_column, unused_values) ==
    IF OtherItems(d, unused_values, sub_column) = <<>> THEN existing_sub_groups
    ELSE Append(existing_sub_groups,
                [id |-> generate_group_id(0, Len(existing_sub_groups) + 1),
                 name |-> <<"O","t","h","e","r"," ","I","t","e","m","s">>,
                 items |-> OtherItems(d, unused_values, sub_column),
                 count |-> Len(OtherItems(d, unused_values, sub_column)),
                 item_count |-> Len(OtherItems(d, unused_values, sub_column)),
                 is_other_items |-> TRUE])

(***************************************************************************)
(* Specification of AI sub-grouping: one plan applied to one dataset       *)
(***************************************************************************)
\* rows of a dataset, groups of a plan, values of a group of a plan
MaxPlanRows == 2

MaxPlanGroups == 2

MaxPlanValues == 2

PlanCells == { NaN, <<" ">>, <<"x">>, <<" ","x">>, <<"y">> }

PlanDatasets == UNION { [1..n -> [main : {<<"a">>}, sub : PlanCells]] : n \in 0..MaxPlanRows }

\* the values a plan lists: a value of the dataset, a value that matches it
\* only fuzzily, and a value that is not in the dataset
PlannedValues == { <<"x">>, <<"X">>, <<"q">> }

GroupPlans(name) ==
    { [name |-> name, values |-> values] :
        values \in UNION { [1..n -> PlannedValues] : n \in 0..MaxPlanValues } }

\* the plans of the oracle: the same value may be listed twice, in one group
\* or in two
SubGroupingPlans ==
    { [sub_groups |-> <<>>] }
    \cup { [sub_groups |-> <<a>>] : a \in GroupPlans(<<"T","h","i","n","g","s">>) }
    \cup { [sub_groups |-> <<a, b>>] : a \in GroupPlans(<<"T","h","i","n","g","s">>), b \in GroupPlans(<<"S","t","u","f","f">>) }

InitSubPlan ==
    /\ df \in PlanDatasets
    /\ request = NoRequest
    /\ result = NoResult
    /\ ValidatorIdle
    /\ OracleIdle
    /\ ManageIdle

\* apply_ai_sub_grouping_plan followed by add_other_items_sub_group, as
\* create_ai_sub_groups_for_main_group and create_ai_sub_groups_for_dataset
\* call them on the plan of the oracle
ApplyAISubGroupingPlan ==
    /\ request = NoRequest
    /\ \E plan \in SubGroupingPlans :
         \E unused_values \in IterationOrders(UnusedValues(df, apply_ai_sub_grouping_plan(df, plan, "sub"), "sub")) :
          /\ request' = [op |-> "apply_ai_sub_grouping_plan", plan |-> plan]
          /\ result' = [kind |-> "sub_groups",
                        sub_groups |-> add_other_items_sub_group(
                            df, apply_ai_sub_grouping_plan(df, plan, "sub"), "sub", unused_values)]
    /\ UNCHANGED <<df, validatorVars, manageVars, oracleVars>>

NextSubPlan == ApplyAISubGroupingPlan

SpecSubPlan == InitSubPlan /\ [][NextSubPlan]_vars

\* the sub-groups that hold the item of the row with index i, once for every
\* such item, as pairs <<k, n>>
PlacesOfRow(sub_groups, i) ==
    { p \in UNION { {<<k, n>> : n \in 1..Len(sub_groups[k].items)} : k \in 1..Len(sub_groups) } :
        sub_groups[p[1]].items[p[2]].source_row = i }

\* is the value of the row matched by an entry of the plan
MatchedByPlan(d, plan, i) ==
    \E k \in 1..Len(plan.sub_groups) :
        \E v \in 1..Len(plan.sub_groups[k].values) :
            \E n \in 1..Len(MatchingRows(d, "sub", plan.sub_groups[k].values[v])) :
                RowAt(d, MatchingRows(d, "sub", plan.sub_groups[k].values[v])[n]).sub = RowAt(d, i).sub

\* C22: after apply_ai_sub_grouping_plan and add_other_items_sub_group every
\* row with a non-null value of the sub column is in exactly one returned
\* sub-group, whatever the plan, and a row whose value no entry of the plan
\* matched is in 'Other Items'
C22_PlanKeepsRowsInOneSubGroup ==
    request.op = "apply_ai_sub_grouping_plan" =>
        \A i \in 0..(Len(df) - 1) :
            ~IsNa(RowAt(df, i).sub) =>
                /\ Cardinality(PlacesOfRow(result.sub_groups, i)) = 1
                /\ ~MatchedByPlan(df, request.plan, i) =>
                      \A p \in PlacesOfRow(result.sub_groups, i) :
                          /\ result.sub_groups[p[1]].name = <<"O","t","h","e","r"," ","I","t","e","m","s">>
                          /\ GetField(result.sub_groups[p[1]], "is_other_items", FALSE)


(***************************************************************************)
(* Specification of the sub-groups by similarity: create_sub_groups_from_  *)
(* items on the items of one DataFrame, with one of a few thresholds       *)
(***************************************************************************)
\* items of one call
MaxClusterItems == 4

\* names whose similarities lie on both sides of the thresholds: 'laptop' is
\* similar to 'laptop bag' at 0.7 and to 'gaming laptop' only at 0.65, and the
\* other two are not similar to each other at either
ClusterNames == { <<"l","a","p","t","o","p">>, <<"g","a","m","i","n","g"," ","l","a","p","t","o","p">>, <<"l","a","p","t","o","p"," ","b","a","g">> }

ClusterDatasets ==
    UNION { [1..n -> [main : ClusterNames, sub : {NaN}]] : n \in 3..MaxClusterItems }

\* similarity_threshold of the call: everything is similar, 0.65, the default
\* 0.7, nothing is similar
Thresholds == { <<0, 1>>, <<13, 20>>, <<7, 10>>, <<1, 1>> }

InitCluster ==
    /\ df \in ClusterDatasets
    /\ request = NoRequest
    /\ result = NoResult
    /\ ValidatorIdle
    /\ OracleIdle
    /\ ManageIdle

\* the items of the rows of df, with distinct ids
ClusterInput == [n \in 1..Len(df) |-> ChunkItem(df, n - 1, 0)]

\* create_sub_groups_from_items(items, similarity_threshold)
CreateSubGroupsFromItems ==
    /\ request = NoRequest
    /\ \E threshold \in Thresholds :
          /\ request' = [op |-> "create_sub_groups_from_items",
                         items |-> ClusterInput,
                         similarity_threshold |-> threshold]
          /\ result' = [kind |-> "sub_groups",
                        sub_groups |-> create_sub_groups_from_items(ClusterInput, threshold, 1)]
    /\ UNCHANGED <<df, validatorVars, manageVars, oracleVars>>

NextCluster == CreateSubGroupsFromItems

SpecCluster == InitCluster /\ [][NextCluster]_vars

\* calculate_product_similarity of two items with names of ClusterNames and
\* the category 'Unknown', computed once
SimilarityByName ==
    [names \in ClusterNames \X ClusterNames |->
        calculate_product_similarity([name |-> names[1], category |-> <<"U","n","k","n","o","w","n">>],
                                     [name |-> names[2], category |-> <<"U","n","k","n","o","w","n">>])]

\* similarity(seed, m) >= t
SimilarAt(seed_item, item, threshold) ==
    FracAtLeast(SimilarityByName[<<seed_item.name, item.name>>], threshold)

\* the place of the item with the id in the input
InputPlace(items, id) == CHOOSE n \in 1..Len(items) : items[n].id = id

\* the places <<k, j>> of the sub-groups at which the item with the id stands
PlacesOfItem(sub_groups, id) ==
    { p \in UNION { {<<k, j>> : j \in 1..Len(sub_groups[k].items)} : k \in 1..Len(sub_groups) } :
        sub_groups[p[1]].items[p[2]].id = id }

\* C23: for more than 3 items with distinct ids and any threshold t,
\* create_sub_groups_from_items puts every item in exactly one sub-group; the
\* first item of a sub-group is its seed, the earliest of its items in the
\* input; every other member is similar to the seed at t, and to no seed of
\* an earlier sub-group
C23_FirstSeedWins ==
    ( request.op = "create_sub_groups_from_items" /\ Len(request.items) > 3 ) =>
        LET items == request.items
            t == request.similarity_threshold
            sub_groups == result.sub_groups
        IN  /\ \A n \in 1..Len(items) : Cardinality(PlacesOfItem(sub_groups, items[n].id)) = 1
            /\ SumSeq([k \in 1..Len(sub_groups) |-> Len(sub_groups[k].items)]) = Len(items)
            /\ \A k \in 1..Len(sub_groups) :
                  /\ sub_groups[k].items # <<>>
                  /\ \A j \in 2..Len(sub_groups[k].items) :
                        /\ InputPlace(items, sub_groups[k].items[1].id)
                              < InputPlace(items, sub_groups[k].items[j].id)
                        /\ SimilarAt(sub_groups[k].items[1], sub_groups[k].items[j], t)
                        /\ \A earlier \in 1..(k - 1) :
                              /\ InputPlace(items, sub_groups[earlier].items[1].id)
                                    < InputPlace(items, sub_groups[k].items[1].id)
                              /\ ~SimilarAt(sub_groups[earlier].items[1], sub_groups[k].items[j], t)

\* four items of which the second seed absorbs an item that stands behind an
\* item of the first sub-group
C23_Witness ==
    /\ request.op = "create_sub_groups_from_items"
    /\ Len(request.items) > 3
    /\ request.similarity_threshold = <<7, 10>>
    /\ Len(result.sub_groups) = 2
    /\ Len(result.sub_groups[1].items) = 2
    /\ Len(result.sub_groups[2].items) = 2
    /\ InputPlace(request.items, result.sub_groups[2].items[1].id)
          < InputPlace(request.items, result.sub_groups[1].items[2].id)


(***************************************************************************)
(* Promotion of core types to main groups                                  *)
(***************************************************************************)
\* the items of the sampled rows of all chunks, in the order of the chunks
SampledItems(d, sample) ==
    Flatten([c \in 1..TotalChunks(Len(d)) |->
        ChunkItems(d, SampleIndex((c - 1) * chunk_size, Min(c * chunk_size, Len(d)) - 1, sample),
                   c - 1)])

\* the sum of the confidences, in units, of the classified items of the category
ClassifiedConfidence(types, category) ==
    SumSeq([n \in 1..Len(types) |->
        IF IsClassified(types[n]) /\ types[n].category = category
        THEN Units(types[n].score) ELSE 0])

\* the category whose display name is the name of the main group
CategoryNamed(categories, name) ==
    CHOOSE c \in categories : Title(ReplaceUnderscores(c)) = name

\* (count, average confidence) of category a is at least that of category b
NotBelow(types, a, b) ==
    \/ ClassifiedAs(types, a) > ClassifiedAs(types, b)
    \/ /\ ClassifiedAs(types, a) = ClassifiedAs(types, b)
       /\ ClassifiedConfidence(types, a) * ClassifiedAs(types, b)
            >= ClassifiedConfidence(types, b) * ClassifiedAs(types, a)

\* the main groups are the promoted categories, each once, in descending order
\* of (count, average confidence)
PromotedInOrder(main_groups, types, promoted) ==
    /\ Len(main_groups) = Cardinality(promoted)
    /\ {main_groups[g].name : g \in 1..Len(main_groups)}
          = {Title(ReplaceUnderscores(c)) : c \in promoted}
    /\ \A g \in 1..Len(main_groups) :
          main_groups[g].total_items
             = ClassifiedAs(types, CategoryNamed(promoted, main_groups[g].name))
    /\ \A g \in 1..Len(main_groups) : \A h \in (g + 1)..Len(main_groups) :
          NotBelow(types, CategoryNamed(promoted, main_groups[g].name),
                          CategoryNamed(promoted, main_groups[h].name))

\* the items that are not classified into a promoted category are ungrouped
OthersUngrouped(ungrouped_ids, items, types, promoted) ==
    \A n \in 1..Len(items) :
        ~(IsClassified(types[n]) /\ types[n].category \in promoted)
            => items[n].id \in ungrouped_ids

\* C24: in the chunked analysis a core type becomes a main group if and only
\* if at least 3 sampled items, over all chunks, were classified into it with
\* a confidence above 0.3; the main groups are emitted in descending order of
\* (item count, average confidence); and the items of types that were not
\* promoted, or classified with a confidence of 0.3 or less, are all in
\* ungrouped_items.
C24_MainGroupPromotion ==
    ChunkedDone /\ result.kind = "groups_data" =>
        \E items \in {SampledItems(df, request.sample)} :
            \E types \in {CoreTypes(items)} :
                \E promoted \in {PromotedTypes(types)} :
                    /\ PromotedInOrder(result.main_groups, types, promoted)
                    /\ OthersUngrouped(IdsOf(result.ungrouped_items), items, types, promoted)

\* the analysis has returned two main groups, the first with more items and a
\* lower average confidence than the second, which was classified first
C24_Witness ==
    /\ ChunkedDone
    /\ result.kind = "groups_data"
    /\ Len(result.main_groups) = 2
    /\ result.main_groups[1].name = <<"F","u","r","n","i","t","u","r","e">>
    /\ result.main_groups[1].total_items = 4
    /\ result.main_groups[2].name = <<"E","l","e","c","t","r","o","n","i","c","s">>
    /\ result.main_groups[2].total_items = 3
    /\ df[1].main = <<"l","a","p","t","o","p">>


(***************************************************************************)
(* Counts written by the validator                                         *)
(***************************************************************************)
\* count and item_count of the sub-group are the number of its items
SubGroupCounted(sub_group) ==
    /\ sub_group.count = Len(sub_group.items)
    /\ sub_group.item_count = Len(sub_group.items)

\* count and item_count of the main group are the number of its direct items
\* plus the counts of its sub-groups
MainGroupCounted(group) ==
    /\ group.count = Len(GetField(group, "items", <<>>))
                        + SumSeq([k \in 1..Len(group.sub_groups) |-> group.sub_groups[k].count])
    /\ group.item_count = group.count

\* C25: after validate_and_count_groups every sub-group has count ==
\* item_count == len(items), 0 when it has no items, regardless of the count
\* it carried before; every main group has count == item_count == len(its
\* direct items) + the sum of its sub-groups' counts; and
\* counts.grouped_records is the sum of the main groups' counts.
C25_CountsRecomputed ==
    calls > 0 =>
        /\ \A g \in 1..Len(groups) :
              /\ \A k \in 1..Len(groups[g].sub_groups) : SubGroupCounted(groups[g].sub_groups[k])
              /\ MainGroupCounted(groups[g])
        /\ report.counts.grouped_records = SumSeq([g \in 1..Len(groups) |-> groups[g].count])

\* the first call was made on a tree whose groups all carried the count 7: a
\* sub-group with one item now has count 1, a sub-group without items has
\* count 0, and the first main group, which has a direct item, has count 2
C25_Witness ==
    /\ calls = 1
    /\ Len(groups[1].sub_groups) = 2
    /\ prev.groups[1].count = 7
    /\ prev.groups[1].sub_groups[1].count = 7
    /\ prev.groups[1].sub_groups[2].count = 7
    /\ Len(groups[1].sub_groups[1].items) = 1
    /\ groups[1].sub_groups[1].count = 1
    /\ groups[1].sub_groups[2].items = <<>>
    /\ groups[1].sub_groups[2].count = 0
    /\ Len(groups[1].items) = 1
    /\ groups[1].count = 2


(***************************************************************************)
(* The category of a name, stated over the scores of all keywords          *)
(***************************************************************************)
\* the scores of the keywords of one tier of one category that match a word
CategoryScores(c, words, tier) ==
    { KeywordScore(core_product_keywords[c][tier][k], words[w], tier) :
        <<k, w>> \in { p \in (1..Len(core_product_keywords[c][tier])) \X (1..Len(words)) :
                        KeywordMatches(core_product_keywords[c][tier][p[1]], words[p[2]]) } }

\* the scores of all categories in one tier
TierScores(words, tier) ==
    UNION { CategoryScores(c, words, tier) : c \in 1..Len(core_product_keywords) }

\* the largest of a non-empty set of fractions
BestFraction(S) == CHOOSE x \in S : \A y \in S : FracAtLeast(x, y)

\* the first category in the order of the taxonomy with a keyword of the score
FirstCategoryWith(words, tier, score) ==
    core_product_keywords[
        MinOf({ c \in 1..Len(core_product_keywords) :
                  \E s \in CategoryScores(c, words, tier) : FracEqual(s, score) })].category

\* the best primary score, 0.0 without a match
BestPrimary(primary) == IF primary = {} THEN <<0, 1>> ELSE BestFraction(primary)

\* a secondary match replaces the primary one
SecondaryReplaces(primary, secondary) ==
    /\ secondary # {}
    /\ ~FracAtLeast(BestPrimary(primary), <<4, 5>>)
    /\ FracGreater(BestFraction(secondary), BestPrimary(primary))

\* the category and the score are those of the tier the rule chooses
TieredCategory(core_type, words, primary, secondary) ==
    IF SecondaryReplaces(primary, secondary)
    THEN /\ core_type.category = FirstCategoryWith(words, "secondary", BestFraction(secondary))
         /\ FracEqual(core_type.score, BestFraction(secondary))
    ELSE IF primary # {}
         THEN /\ core_type.category = FirstCategoryWith(words, "primary", BestFraction(primary))
              /\ FracEqual(core_type.score, BestFraction(primary))
         ELSE /\ core_type.category = <<"o","t","h","e","r">>
              /\ FracEqual(core_type.score, <<0, 1>>)

\* C26: the category returned by extract_core_product_type is the first
\* category in the order of the taxonomy whose primary keyword attains the
\* maximum primary score, so that a word matching primary keywords of two
\* categories, such as 'oil', gets the earlier one; a secondary keyword match,
\* weighted by 0.7, replaces it only when the best primary score is below 0.8
\* and the weighted secondary score is strictly greater than the current best.
C26_TieBreakAndTiers ==
    request.op = "extract_core_product_type" =>
        \E words \in {NormalizedWords(request.product_name)} :
            \E primary \in {TierScores(words, "primary")} :
                \E secondary \in {TierScores(words, "secondary")} :
                    TieredCategory(result.value, words, primary, secondary)

\* 'oil', a primary keyword of food_beverages and of automotive, was
\* classified as food_beverages
C26_Witness ==
    /\ request.op = "extract_core_product_type"
    /\ request.product_name = <<"o","i","l">>
    /\ result.value.category = <<"f","o","o","d","_","b","e","v","e","r","a","g","e","s">>
    /\ FracEqual(result.value.score, <<1, 1>>)


(***************************************************************************)
(* The places of the sampled rows in the result of the chunked analysis    *)
(***************************************************************************)
\* the number of places, in the sub-groups and in ungrouped_items, of the item
PlacesOf(placed, id) == Cardinality({m \in 1..Len(placed) : placed[m].id = id})

\* every sampled item is placed once and nothing else is placed
PlacedOnce(placed, sampled) ==
    /\ \A n \in 1..Len(sampled) : PlacesOf(placed, sampled[n].id) = 1
    /\ Len(placed) = Len(sampled)

\* C27: in the result of generate_intelligent_groups every sampled row, up to
\* sample_size_per_chunk rows from each chunk of chunk_size rows, appears in
\* exactly one place, either one sub-group of one main group or
\* ungrouped_items, so that grouped items + len(ungrouped_items) ==
\* metadata.total_items == the sum over the chunks of min(chunk length,
\* sample_size_per_chunk).
C27_SampledRowsPlacedOnce ==
    ChunkedDone /\ result.kind = "groups_data" =>
        /\ \E placed \in {ResultItems(result)} :
              \E sampled \in {SampledItems(df, request.sample)} :
                  PlacedOnce(placed, sampled)
        /\ ItemsInSubGroups(result.main_groups) + Len(result.ungrouped_items)
              = result.metadata.total_items
        /\ result.metadata.total_items = SampledRows(Len(df))

\* a DataFrame of two chunks, the first longer than the sample, was analysed:
\* 101 rows were sampled, some are in a main group and some are ungrouped
C27_Witness ==
    /\ ChunkedDone
    /\ Len(df) = chunk_size + 1
    /\ result.kind = "groups_data"
    /\ result.metadata.total_items = sample_size_per_chunk + 1
    /\ result.metadata.total_chunks_processed = 2
    /\ ItemsInSubGroups(result.main_groups) > 0
    /\ Len(result.ungrouped_items) > 0


(***************************************************************************)
(* Statistics of the main groups after an update                           *)
(***************************************************************************)
\* the number of items in the sub-groups of the main group
ItemsOfSubGroups(group) ==
    SumSeq([k \in 1..Len(group.sub_groups) |-> Len(group.sub_groups[k].items)])

\* total_items and estimated_savings are those of the items of the sub-groups
StatisticsCurrent(group) ==
    /\ group.total_items = ItemsOfSubGroups(group)
    /\ group.estimated_savings = calculate_estimated_savings(LegacyGroupItems(group))

\* C28: after every successful update_group_management action, whatever the
\* action, each main group's total_items equals the sum of len(items) over its
\* sub-groups and its estimated_savings equals calculate_estimated_savings of
\* those items; this holds after any sequence of actions.
C28_StatisticsRecalculated ==
    updates > 0 /\ result.kind = "saved" =>
        \A g \in 1..Len(groups_data.main_groups) : StatisticsCurrent(groups_data.main_groups[g])

\* a second action was saved that took an item out of a main group of three:
\* the group has two items and the savings of two
C28_Witness ==
    /\ updates = 2
    /\ result.kind = "saved"
    /\ request.action = "move_item"
    /\ Len(df) = 3
    /\ Len(groups_data.main_groups) = 1
    /\ groups_data.main_groups[1].total_items = 2
    /\ groups_data.main_groups[1].estimated_savings = <<"5","%">>
    /\ Len(groups_data.ungrouped_items) = 1


(***************************************************************************)
(* Specification of group management on a document stored for the groups   *)
(* of create_groups_from_columns                                           *)
(***************************************************************************)
\* storage_data of POST /api/group-management/generate-configured: the main
\* groups in the dictionary format, the validation recalculated, the counts;
\* it has no 'metadata'
StorageData(d, configured) ==
    \E groups_legacy \in {convert_groups_to_legacy_format(configured).main_groups} :
        \E final_validation \in
              {recalculate_validation_data([main_groups |-> groups_legacy,
                                            ungrouped_items |-> configured.ungrouped_items,
                                            validation |-> configured.validation]).validation} :
            groups_data = [main_groups |-> groups_legacy,
                           ungrouped_items |-> configured.ungrouped_items,
                           validation |-> final_validation,
                           total_items |-> Len(d),
                           grouped_items |-> final_validation.counts.grouped_records,
                           ungrouped_count |-> final_validation.counts.ungrouped_records,
                           total_groups |-> final_validation.counts.main_groups,
                           total_sub_groups |-> final_validation.counts.total_sub_groups,
                           is_valid |-> final_validation.is_valid]

\* rows in the uploaded files
MaxManagedRows == 3

\* the uploaded files: one main value, sub values that give regular sub-groups
\* and, for the blank one, the 'Ungrouped Items' sub-group
ManagedColumnDatasets ==
    UNION { [1..n -> [main : {<<"a">>}, sub : {<<"x">>, <<"y">>, <<" ">>}]] : n \in 2..MaxManagedRows }

InitManageColumns ==
    /\ df \in ManagedColumnDatasets
    /\ StorageData(df, generate_groups_with_config(df, TRUE, "main", "sub"))
    /\ updates = 0
    /\ request = NoRequest
    /\ result = NoResult
    /\ ValidatorIdle
    /\ OracleIdle

SpecManageColumns == InitManageColumns /\ [][NextManage]_vars

\* the sub-groups of the main group that are flagged is_ungrouped_subgroup
UngroupedBuckets(group) ==
    {k \in 1..Len(group.sub_groups) : IsUngroupedSubGroup(group.sub_groups[k])}

\* every main group has at most one sub-group flagged is_ungrouped_subgroup
OneBucketEach(doc) ==
    \A g \in 1..Len(doc.main_groups) : Cardinality(UngroupedBuckets(doc.main_groups[g])) <= 1

\* the request names a main group of the document and one of its sub-groups
NamesSubGroup(doc, req) ==
    /\ HasEntry(doc.main_groups, req.group_id)
    /\ HasEntry(doc.main_groups[EntryPos(doc.main_groups, req.group_id)].sub_groups,
                req.sub_group_id)

\* the sub-group the request names
NamedSubGroupOf(doc, req) ==
    doc.main_groups[EntryPos(doc.main_groups, req.group_id)]
       .sub_groups[EntryPos(doc.main_groups[EntryPos(doc.main_groups, req.group_id)].sub_groups,
                            req.sub_group_id)]

\* every one of the items is in the list
AllIn(items, list) ==
    \A i \in 1..Len(items) : \E j \in 1..Len(list) : list[j] = items[i]

\* the items are in the flagged sub-group of the main group
InBucketOf(group, items) ==
    \E k \in UngroupedBuckets(group) : AllIn(items, group.sub_groups[k].items)

\* the sub-group is gone and its items are where delete_sub_group moves them
DeletedAndMoved(after, req, sub_group) ==
    /\ ~NamesSubGroup(after, req)
    /\ HasEntry(after.main_groups, req.group_id)
    /\ IF IsUngroupedSubGroup(sub_group)
       THEN AllIn(sub_group.items, after.ungrouped_items)
       ELSE InBucketOf(after.main_groups[EntryPos(after.main_groups, req.group_id)],
                       sub_group.items)

\* C29: starting from a result of create_groups_from_columns, after any
\* sequence of update_group_management actions every main group has at most
\* one sub-group with is_ungrouped_subgroup == true; deleting a regular
\* sub-group moves its items into that bucket, creating it if absent, and
\* deleting the bucket itself moves its items to the global ungrouped_items.
C29_OneBucketPerMainGroup ==
    [][/\ OneBucketEach(groups_data')
       /\ request'.action = "delete_sub_group" /\ NamesSubGroup(groups_data, request')
             => DeletedAndMoved(groups_data', request', NamedSubGroupOf(groups_data, request'))]_vars


(***************************************************************************)
(* Specification of the estimated savings: calculate_estimated_savings for  *)
(* a group and for the same group with one item more                       *)
(***************************************************************************)
\* items in the largest group
MaxSavingsItems == 60

\* a group of n items
SavingsItems(n) == [i \in 1..n |-> [id |-> IntToStr(i), price |-> <<0, 1>>, quantity |-> 1]]

InitSavings ==
    /\ df = <<>>
    /\ request = NoRequest
    /\ result = NoResult
    /\ ValidatorIdle
    /\ OracleIdle
    /\ ManageIdle

\* calculate_estimated_savings(items)
CalculateEstimatedSavings ==
    /\ request = NoRequest
    /\ \E n \in 0..MaxSavingsItems :
          /\ request' = [op |-> "calculate_estimated_savings", item_count |-> n, grown |-> FALSE]
          /\ result' = [kind |-> "value", value |-> calculate_estimated_savings(SavingsItems(n))]
    /\ UNCHANGED <<df, validatorVars, manageVars, oracleVars>>

\* calculate_estimated_savings(items) after the group has got one item more
CalculateForGrownGroup ==
    /\ request # NoRequest
    /\ request.op = "calculate_estimated_savings"
    /\ ~request.grown
    /\ request' = [op |-> "calculate_estimated_savings", item_count |-> request.item_count + 1,
                   grown |-> TRUE, before |-> result.value]
    /\ result' = [kind |-> "value",
                  value |-> calculate_estimated_savings(SavingsItems(request.item_count + 1))]
    /\ UNCHANGED <<df, validatorVars, manageVars, oracleVars>>

NextSavings ==
    \/ CalculateEstimatedSavings
    \/ CalculateForGrownGroup

SpecSavings == InitSavings /\ [][NextSavings]_vars

\* the number in a percent string
PercentOf(savings) == ParseDigits(SubSeq(savings, 1, Len(savings) - 1))

\* C30: the estimated savings never decreases when a group grows: for all item
\* counts n >= 0 the percentage of calculate_estimated_savings for n + 1 items
\* is greater than or equal to the percentage for n items, and every value
\* lies between 5 and 25 inclusive.
C30_SavingsNeverDecrease ==
    request # NoRequest /\ request.op = "calculate_estimated_savings" =>
        /\ PercentOf(result.value) >= 5
        /\ PercentOf(result.value) <= 25
        /\ request.grown => PercentOf(result.value) >= PercentOf(request.before)

=============================================================================
